---- MODULE Spec2Model ----
(***************************************************************************)
(* Model of the subscription aggregation service: the subscriptions table, *)
(* the CRUDL handlers, the overlap selector (ListOverlapping) and the      *)
(* aggregation loop of AggregationHandler.Total.                           *)
(*                                                                         *)
(* Strings are sequences of one-character strings, so that TrimSpace,      *)
(* Split and Atoi act on them as the Go functions do.  A time.Time is a    *)
(* record of its UTC calendar fields.  A nil pointer is the empty          *)
(* sequence, a non-nil pointer the one-element sequence of its target.     *)
(***************************************************************************)
EXTENDS Integers, Sequences, FiniteSets, TLC

VARIABLES
    subscriptions,  \* the subscriptions table: id -> row
    nextId,         \* number of ids uuid.New has handed out, plus one
    req,            \* the request being served (NoRequest when idle)
    resp,           \* the response written for req (NoResponse when idle)
    repoErr,        \* what the repository call of req returned (NotCalled if none)
    items,          \* Total: the candidates the collaborator returned
    periodStart,    \* Total: parsed start_date
    periodEnd,      \* Total: parsed end_date
    total,          \* Total: the accumulator
    idx,            \* Total: position of the range loop in items
    pc,             \* Total: "idle", "loop" or "done"
    argStart,       \* monthsInclusive: first argument
    argEnd,         \* monthsInclusive: second argument
    months,         \* monthsInclusive: result (Nil before the call)
    parseArg,       \* ParseMonthYear: its argument s
    parseRes,       \* ParseMonthYear: its results (Nil before the call)
    formatRes,      \* FormatMonthYear: its result (Nil before the call)
    formatArg,      \* FormatMonthYear: its argument t, when the date comes first
    calls,          \* concurrent Total requests: goroutine -> its local variables
    ctxErr,         \* Total: ctx.Err() of the context of the repository call
    wide,           \* Total: the loop with its accumulator at its machine width
    run             \* the handler serving req, statement by statement

storeVars == <<subscriptions, nextId, req, resp, repoErr>>
engineVars == <<items, periodStart, periodEnd, total, idx, pc>>
monthVars == <<argStart, argEnd, months>>
utilVars == <<parseArg, parseRes, formatRes, formatArg>>
concVars == <<calls>>
ctxVars == <<ctxErr>>
wideVars == <<wide>>
runVars == <<run>>
vars == <<subscriptions, nextId, req, resp, repoErr, items, periodStart, periodEnd,
          total, idx, pc, argStart, argEnd, months, parseArg, parseRes, formatRes,
          formatArg, calls, ctxErr, wide, run>>

----------------------------------------------------------------------------
(* Bounds of the model *)

\* ids uuid.New may hand out in one behaviour
MaxIds == 2
\* longest candidate sequence handed to the aggregation loop
MaxCandidates == 2
\* Total requests served at the same time
MaxCalls == 2
\* most candidates ListOverlapping returns to one Total request
MaxWideItems == 100000

----------------------------------------------------------------------------
(* time.Time *)

Date(y, m, d, h) == [year |-> y, month |-> m, day |-> d, hour |-> h]

\* time.Time{}: the zero value returned beside an error
ZeroTime == Date(1, 1, 1, 0)

\* t.Before(u)
Before(t, u) ==
    \/ t.year < u.year
    \/ t.year = u.year /\ t.month < u.month
    \/ t.year = u.year /\ t.month = u.month /\ t.day < u.day
    \/ t.year = u.year /\ t.month = u.month /\ t.day = u.day /\ t.hour < u.hour

\* t.After(u)
After(t, u) == Before(u, t)

Nil == <<>>
Ptr(x) == <<x>>
Deref(p) == p[1]

----------------------------------------------------------------------------
(* strings, strconv *)

Space == " "

RECURSIVE TrimLeft(_)
TrimLeft(s) ==
    IF Len(s) > 0 /\ Head(s) = Space THEN TrimLeft(Tail(s)) ELSE s

RECURSIVE TrimRight(_)
TrimRight(s) ==
    IF Len(s) > 0 /\ s[Len(s)] = Space
    THEN TrimRight(SubSeq(s, 1, Len(s) - 1))
    ELSE s

\* strings.TrimSpace
TrimSpace(s) == TrimRight(TrimLeft(s))

\* strings.Split(s, "-"): the pieces between the hyphens, empty pieces kept
RECURSIVE SplitFrom(_, _, _)
SplitFrom(s, i, cur) ==
    IF i > Len(s) THEN <<cur>>
    ELSE IF s[i] = "-" THEN <<cur>> \o SplitFrom(s, i + 1, <<>>)
    ELSE SplitFrom(s, i + 1, Append(cur, s[i]))

Split(s) == SplitFrom(s, 1, <<>>)

DigitValue ==
    [c \in {"0", "1", "2", "3", "4", "5", "6", "7", "8", "9"} |->
        CASE c = "0" -> 0 [] c = "1" -> 1 [] c = "2" -> 2 [] c = "3" -> 3
          [] c = "4" -> 4 [] c = "5" -> 5 [] c = "6" -> 6 [] c = "7" -> 7
          [] c = "8" -> 8 [] c = "9" -> 9]

RECURSIVE DigitsValue(_)
DigitsValue(s) ==
    IF Len(s) = 0 THEN 0
    ELSE DigitsValue(SubSeq(s, 1, Len(s) - 1)) * 10 + DigitValue[s[Len(s)]]

\* strconv.Atoi: an optional sign, then one or more decimal digits
Atoi(s) ==
    LET signed == Len(s) > 0 /\ s[1] \in {"+", "-"}
        digits == IF signed THEN Tail(s) ELSE s
        good == Len(digits) > 0
                /\ \A i \in 1..Len(digits) : digits[i] \in DOMAIN DigitValue
    IN  IF ~good THEN [ok |-> FALSE, val |-> 0]
        ELSE [ok |-> TRUE,
              val |-> IF signed /\ s[1] = "-" THEN 0 - DigitsValue(digits)
                      ELSE DigitsValue(digits)]

DigitChar == <<"0", "1", "2", "3", "4", "5", "6", "7", "8", "9">>

RECURSIVE Itoa(_)
Itoa(n) ==
    IF n < 10 THEN <<DigitChar[n + 1]>>
    ELSE Append(Itoa(n \div 10), DigitChar[(n % 10) + 1])

RECURSIVE PadZero(_, _)
PadZero(s, width) == IF Len(s) >= width THEN s ELSE PadZero(<<"0">> \o s, width)

----------------------------------------------------------------------------
(* utils *)

NoErr == "nil"

ParseMonthYear_lastDay(str) ==
    LET s == TrimSpace(str)
        parts == Split(s)
        month == Atoi(parts[1])
        year == Atoi(parts[2])
    IN  IF Len(parts) # 2
        THEN [err |-> "invalid date format, expected MM-YYYY", t |-> ZeroTime]
        ELSE IF ~month.ok THEN [err |-> "invalid month", t |-> ZeroTime]
        ELSE IF ~year.ok THEN [err |-> "invalid year", t |-> ZeroTime]
        ELSE IF month.val < 1 \/ month.val > 12
        THEN [err |-> "month must be between 01 and 12", t |-> ZeroTime]
        ELSE IF year.val <= 1900 \/ year.val >= 2500
        THEN [err |-> "year out of range", t |-> ZeroTime]
        ELSE [err |-> NoErr, t |-> Date(year.val, month.val, 28, 0)]

ParseMonthYear_yearOffByOne(str) ==
    LET s == TrimSpace(str)
        parts == Split(s)
        month == Atoi(parts[1])
        year == Atoi(parts[2])
    IN  IF Len(parts) # 2
        THEN [err |-> "invalid date format, expected MM-YYYY", t |-> ZeroTime]
        ELSE IF ~month.ok THEN [err |-> "invalid month", t |-> ZeroTime]
        ELSE IF ~year.ok THEN [err |-> "invalid year", t |-> ZeroTime]
        ELSE IF month.val < 1 \/ month.val > 12
        THEN [err |-> "month must be between 01 and 12", t |-> ZeroTime]
        ELSE IF year.val < 1900 \/ year.val > 2500
        THEN [err |-> "year out of range", t |-> ZeroTime]
        ELSE [err |-> NoErr, t |-> Date(year.val, month.val, 1, 0)]

\* utils.ParseMonthYear
ParseMonthYear(str) ==
    LET s == TrimSpace(str)
        parts == Split(s)
        month == Atoi(parts[1])
        year == Atoi(parts[2])
    IN  IF Len(parts) # 2
        THEN [err |-> "invalid date format, expected MM-YYYY", t |-> ZeroTime]
        ELSE IF ~month.ok THEN [err |-> "invalid month", t |-> ZeroTime]
        ELSE IF ~year.ok THEN [err |-> "invalid year", t |-> ZeroTime]
        ELSE IF month.val < 1 \/ month.val > 12
        THEN [err |-> "month must be between 01 and 12", t |-> ZeroTime]
        ELSE IF year.val <= 1900 \/ year.val >= 2500
        THEN [err |-> "year out of range", t |-> ZeroTime]
        ELSE [err |-> NoErr, t |-> Date(year.val, month.val, 1, 0)]

FormatMonthYear_unpadded(t) == Itoa(t.month) \o <<"-">> \o PadZero(Itoa(t.year), 4)

\* utils.FormatMonthYear (years 0..9999: no sign)
FormatMonthYear(t) ==
    PadZero(Itoa(t.month), 2) \o <<"-">> \o PadZero(Itoa(t.year), 4)

----------------------------------------------------------------------------
(* domain.Subscription *)

Subscription(id, serviceName, price, userID, startDate, endDate, createdAt, updatedAt) ==
    [ID |-> id, ServiceName |-> serviceName, Price |-> price, UserID |-> userID,
     StartDate |-> startDate, EndDate |-> endDate,
     CreatedAt |-> createdAt, UpdatedAt |-> updatedAt]

ZeroSubscription == Subscription(<<>>, <<>>, 0, <<>>, ZeroTime, Nil, 0, 0)

----------------------------------------------------------------------------
(* uuid *)

HexLower ==
    [c \in {"a", "b", "c", "A", "B", "C", "0", "1", "2", "3"} |->
        CASE c = "A" -> "a" [] c = "B" -> "b" [] c = "C" -> "c" [] OTHER -> c]

\* uuid.Parse: the text of a UUID in either case gives the same UUID, here
\* written as its canonical (lower case) text; anything else is an error
uuidParse(s) ==
    IF Len(s) > 0 /\ \A i \in 1..Len(s) : s[i] \in DOMAIN HexLower
    THEN [err |-> NoErr, id |-> [i \in 1..Len(s) |-> HexLower[s[i]]]]
    ELSE [err |-> "invalid UUID", id |-> <<>>]

----------------------------------------------------------------------------
(* postgres: the subscriptions table and SubscriptionRepo *)

NotCalled == "not called"
ErrNotFound == "ErrNotFound"
DeadlineExceeded == "context.DeadlineExceeded"
Failure == "database failure"

\* the error a query returns when the call meets fault f
FaultErr(f) == IF f = "deadline" THEN DeadlineExceeded ELSE Failure

\* a time.Time written to a column of type date and read back: the calendar
\* day at midnight UTC
ToSQLDate(t) == [t EXCEPT !.hour = 0]

ToSQLDatePtr(p) == IF p = Nil THEN Nil ELSE Ptr(ToSQLDate(Deref(p)))

\* the row a subscription is stored as
Row(s, createdAt, updatedAt) ==
    Subscription(s.ID, s.ServiceName, s.Price, s.UserID, ToSQLDate(s.StartDate),
                 ToSQLDatePtr(s.EndDate), createdAt, updatedAt)

\* CHECK (price >= 0) and PRIMARY KEY (id)
InsertAllowed(table, s) == s.Price >= 0 /\ s.ID \notin DOMAIN table

\* SubscriptionRepo.Create at time now
repoCreate(table, s, now, fault) ==
    IF fault # "none" \/ ~InsertAllowed(table, s)
    THEN [err |-> FaultErr(fault), table |-> table, out |-> ZeroSubscription]
    ELSE [err |-> NoErr,
          table |-> [id \in DOMAIN table \cup {s.ID} |->
                        IF id = s.ID THEN Row(s, now, now) ELSE table[id]],
          out |-> [s EXCEPT !.CreatedAt = now, !.UpdatedAt = now]]

\* SubscriptionRepo.GetByID
repoGetByID(table, id, fault) ==
    IF fault # "none" THEN [err |-> FaultErr(fault), out |-> ZeroSubscription]
    ELSE IF id \notin DOMAIN table THEN [err |-> ErrNotFound, out |-> ZeroSubscription]
    ELSE [err |-> NoErr, out |-> table[id]]

repoUpdate_resetsCreatedAt(table, s, now, fault) ==
    IF fault # "none" \/ (s.ID \in DOMAIN table /\ s.Price < 0)
    THEN [err |-> FaultErr(fault), table |-> table, out |-> ZeroSubscription]
    ELSE IF s.ID \notin DOMAIN table
    THEN [err |-> ErrNotFound, table |-> table, out |-> ZeroSubscription]
    ELSE [err |-> NoErr,
          table |-> [table EXCEPT ![s.ID] = Row(s, now, now)],
          out |-> [s EXCEPT !.CreatedAt = now, !.UpdatedAt = now]]

\* SubscriptionRepo.Update at time now
repoUpdate(table, s, now, fault) ==
    IF fault # "none" \/ (s.ID \in DOMAIN table /\ s.Price < 0)
    THEN [err |-> FaultErr(fault), table |-> table, out |-> ZeroSubscription]
    ELSE IF s.ID \notin DOMAIN table
    THEN [err |-> ErrNotFound, table |-> table, out |-> ZeroSubscription]
    ELSE [err |-> NoErr,
          table |-> [table EXCEPT ![s.ID] = Row(s, table[s.ID].CreatedAt, now)],
          out |-> [s EXCEPT !.CreatedAt = table[s.ID].CreatedAt, !.UpdatedAt = now]]

\* SubscriptionRepo.Delete
repoDelete(table, id, fault) ==
    IF fault # "none" THEN [err |-> FaultErr(fault), table |-> table]
    ELSE IF id \notin DOMAIN table THEN [err |-> ErrNotFound, table |-> table]
    ELSE [err |-> NoErr, table |-> [i \in DOMAIN table \ {id} |-> table[i]]]

\* the sequences that list the rows of set S once each with key
\* non-decreasing: what ORDER BY key leaves open is open here too
OrderedBy(S, key) ==
    {seq \in [1..Cardinality(S) -> S] :
        /\ \A i, j \in 1..Cardinality(S) : i < j => seq[i] # seq[j]
        /\ \A i, j \in 1..Cardinality(S) : i < j => key[seq[i]] <= key[seq[j]]}

\* WHERE ($1::uuid IS NULL OR user_id = $1) AND ($2::text IS NULL OR service_name = $2)
FilterMatches(r, userID, serviceName) ==
    /\ userID = Nil \/ r.UserID = Deref(userID)
    /\ serviceName = Nil \/ r.ServiceName = Deref(serviceName)

\* SubscriptionRepo.List: ORDER BY created_at DESC
repoList(table, userID, serviceName) ==
    LET rows == {r \in {table[id] : id \in DOMAIN table} :
                    FilterMatches(r, userID, serviceName)}
    IN  OrderedBy(rows, [r \in rows |-> 0 - r.CreatedAt])

\* date comparison of SQL: by calendar day
SQLDay(t) == (t.year * 12 + (t.month - 1)) * 31 + (t.day - 1)

ListOverlappingRows_strictEnd(table, userID, serviceName, pStart, pEnd) ==
    {r \in {table[id] : id \in DOMAIN table} :
        /\ FilterMatches(r, userID, serviceName)
        /\ SQLDay(r.StartDate) <= SQLDay(ToSQLDate(pEnd))
        /\ r.EndDate = Nil \/ SQLDay(Deref(r.EndDate)) > SQLDay(ToSQLDate(pStart))}

ListOverlappingRows_anyFilter(table, userID, serviceName, pStart, pEnd) ==
    {r \in {table[id] : id \in DOMAIN table} :
        /\ \/ (userID = Nil /\ serviceName = Nil)
           \/ (userID # Nil /\ r.UserID = Deref(userID))
           \/ (serviceName # Nil /\ r.ServiceName = Deref(serviceName))
        /\ SQLDay(r.StartDate) <= SQLDay(ToSQLDate(pEnd))
        /\ r.EndDate = Nil \/ SQLDay(Deref(r.EndDate)) >= SQLDay(ToSQLDate(pStart))}

ListOverlappingRows_startOnly(table, userID, serviceName, pStart, pEnd) ==
    {r \in {table[id] : id \in DOMAIN table} :
        /\ FilterMatches(r, userID, serviceName)
        /\ SQLDay(r.StartDate) <= SQLDay(ToSQLDate(pEnd))}

ListOverlappingRows_swapped(table, userID, serviceName, pStart, pEnd) ==
    {r \in {table[id] : id \in DOMAIN table} :
        /\ FilterMatches(r, userID, serviceName)
        /\ SQLDay(r.StartDate) <= SQLDay(ToSQLDate(pStart))
        /\ r.EndDate = Nil \/ SQLDay(Deref(r.EndDate)) >= SQLDay(ToSQLDate(pEnd))}

\* SubscriptionRepo.ListOverlapping: the WHERE clause
ListOverlappingRows(table, userID, serviceName, pStart, pEnd) ==
    {r \in {table[id] : id \in DOMAIN table} :
        /\ FilterMatches(r, userID, serviceName)
        /\ SQLDay(r.StartDate) <= SQLDay(ToSQLDate(pEnd))
        /\ r.EndDate = Nil \/ SQLDay(Deref(r.EndDate)) >= SQLDay(ToSQLDate(pStart))}

\* SubscriptionRepo.ListOverlapping: ORDER BY start_date ASC
repoListOverlapping(table, userID, serviceName, pStart, pEnd) ==
    LET rows == ListOverlappingRows(table, userID, serviceName, pStart, pEnd)
    IN  OrderedBy(rows, [r \in rows |-> SQLDay(r.StartDate)])

----------------------------------------------------------------------------
(* handlers: aggregation *)

monthsInclusive_exclusive(start, end) ==
    (end.year - start.year) * 12 + (end.month - start.month)

monthsInclusive_sameYear(start, end) == (end.month - start.month) + 1

monthsInclusive(start, end) ==
    (end.year - start.year) * 12 + (end.month - start.month) + 1

maxTime_first(a, b) == a

maxTime(a, b) == IF After(a, b) THEN a ELSE b

minTime(a, b) == IF Before(a, b) THEN a ELSE b

activeStart_unclamped(s, pStart) == s.StartDate

\* Total: activeStart of one candidate
activeStart(s, pStart) == maxTime(s.StartDate, pStart)

activeEnd_ignoresEndDate(s, pEnd) == pEnd

activeEnd_unclamped(s, pEnd) == IF s.EndDate # Nil THEN Deref(s.EndDate) ELSE pEnd

\* Total: activeEnd of one candidate
activeEnd(s, pEnd) ==
    IF s.EndDate # Nil THEN minTime(Deref(s.EndDate), pEnd) ELSE pEnd

skipped_never(s, pStart, pEnd) == FALSE

\* Total: the skip test of one candidate
skipped(s, pStart, pEnd) == Before(activeEnd(s, pEnd), activeStart(s, pStart))

LoopBody_assigns(acc, s, pStart, pEnd) ==
    IF skipped(s, pStart, pEnd) THEN acc
    ELSE monthsInclusive(activeStart(s, pStart), activeEnd(s, pEnd)) * s.Price

\* Total: one iteration of the range loop, from accumulator acc
LoopBody(acc, s, pStart, pEnd) ==
    IF skipped(s, pStart, pEnd) THEN acc
    ELSE acc + monthsInclusive(activeStart(s, pStart), activeEnd(s, pEnd)) * s.Price

\* Total: the whole range loop over cands, from total := 0
RECURSIVE LoopFrom(_, _, _, _)
LoopFrom(acc, cands, pStart, pEnd) ==
    IF cands = <<>> THEN acc
    ELSE LoopFrom(LoopBody(acc, Head(cands), pStart, pEnd), Tail(cands), pStart, pEnd)

Aggregate(cands, pStart, pEnd) == LoopFrom(0, cands, pStart, pEnd)

----------------------------------------------------------------------------
(* HTTP requests and responses *)

EmptyBody ==
    [json |-> FALSE, service_name |-> <<>>, price |-> 0, user_id |-> <<>>,
     start_date |-> <<>>, end_date |-> <<>>]

EmptyQuery ==
    [start_date |-> <<>>, end_date |-> <<>>, user_id |-> <<>>, service_name |-> <<>>]

Request(handler, id, body, query) ==
    [handler |-> handler, id |-> id, body |-> body, query |-> query]

NoRequest == Request("none", <<>>, EmptyBody, EmptyQuery)

\* c.JSON(status, ...): error is the "error" member, subs the subscription(s)
\* of the body, total/period_start/period_end the members of Total's answer
Response(status, error, subs, tot, pStartStr, pEndStr) ==
    [status |-> status, error |-> error, subs |-> subs, total |-> tot,
     period_start |-> pStartStr, period_end |-> pEndStr]

NoResponse == Response(0, "", <<>>, Nil, <<>>, <<>>)

ErrorResponse(status, error) == Response(status, error, <<>>, Nil, <<>>, <<>>)

\* Total: the answer written after the loop
TotalResponse(tot, startStr, endStr) ==
    Response(200, "", <<>>, Ptr(tot), startStr, endStr)

----------------------------------------------------------------------------
(* Inputs of the model *)

S112024 == <<"1", "1", "-", "2", "0", "2", "4">>
S122024 == <<"1", "2", "-", "2", "0", "2", "4">>
S012025 == <<"0", "1", "-", "2", "0", "2", "5">>
S022025 == <<"0", "2", "-", "2", "0", "2", "5">>
S032025 == <<"0", "3", "-", "2", "0", "2", "5">>
S052025 == <<"0", "5", "-", "2", "0", "2", "5">>

\* a month-normalized date: what time.Date(y, m, 1, 0, 0, 0, 0, time.UTC) is
Month(y, m) == Date(y, m, 1, 0)

\* user ids and service names of stored rows
UserA == <<"a">>
UserB == <<"b">>
Netflix == <<"n">>
Spotify == <<"s">>

\* a candidate as a collaborator may hand it to the loop
Candidate(price, startDate, endDate) ==
    Subscription(<<"c">>, Netflix, price, UserA, startDate, endDate, 0, 0)

EngineWindowStrings == {S122024, S012025, S022025}
EngineDates == {Month(2024, 12), Month(2025, 1), Month(2025, 2)}
EnginePrices == {300, 500}

EngineCandidates ==
    {Candidate(p, s, e) :
        p \in EnginePrices, s \in EngineDates,
        e \in {Nil} \cup {Ptr(d) : d \in EngineDates}}

SeqsUpTo(S, n) == UNION {[1..k -> S] : k \in 0..n}

\* the worked examples of the design document
ExampleEndToEnd ==
    [items |-> <<Candidate(500, Month(2025, 1), Nil),
                 Candidate(300, Month(2025, 2), Ptr(Month(2025, 2)))>>,
     start |-> S012025, end |-> S032025]
ExampleFullOverlap ==
    [items |-> <<Candidate(300, Month(2025, 1), Nil)>>,
     start |-> S012025, end |-> S032025]
ExamplePartialOverlap ==
    [items |-> <<Candidate(500, Month(2024, 11), Ptr(Month(2025, 2)))>>,
     start |-> S012025, end |-> S032025]
ExampleNoOverlap ==
    [items |-> <<Candidate(500, Month(2025, 5), Nil)>>,
     start |-> S012025, end |-> S032025]

EngineInputs ==
    [items : SeqsUpTo(EngineCandidates, MaxCandidates),
     start : EngineWindowStrings, end : EngineWindowStrings]
    \cup {ExampleEndToEnd, ExampleFullOverlap, ExamplePartialOverlap, ExampleNoOverlap}

MonthYears == {2023, 2024, 2025}
MonthDates == {Month(y, m) : y \in MonthYears, m \in 1..12}

\* request bodies: a base body; every combination of two service names and
\* two users; every combination of the start and end dates; and one field at
\* a time made invalid or unusual
BaseBody ==
    [json |-> TRUE, service_name |-> Netflix, price |-> 500, user_id |-> <<"a">>,
     start_date |-> S012025, end_date |-> <<>>]

OwnerBodies ==
    {[BaseBody EXCEPT !.service_name = n, !.user_id = u] :
        n \in {Netflix, <<" ", "s", " ">>}, u \in {<<"a">>, <<"B">>}}

DateBodies ==
    {[BaseBody EXCEPT !.start_date = s, !.end_date = e] :
        s \in {S122024, S012025}, e \in {<<>>, S122024, S012025}}

ProductBodies == OwnerBodies \cup DateBodies

VariedBodies ==
    {[BaseBody EXCEPT !.json = FALSE],
     [BaseBody EXCEPT !.service_name = <<>>],
     [BaseBody EXCEPT !.service_name = <<" ">>],
     [BaseBody EXCEPT !.price = 0 - 1],
     [BaseBody EXCEPT !.price = 0],
     [BaseBody EXCEPT !.price = 300],
     [BaseBody EXCEPT !.user_id = <<>>],
     [BaseBody EXCEPT !.user_id = <<"x">>],
     [BaseBody EXCEPT !.start_date = <<>>],
     [BaseBody EXCEPT !.start_date = <<"1", "-", "2", "0", "2", "5">>],
     [BaseBody EXCEPT !.start_date = <<"1", "3", "-", "2", "0", "2", "5">>],
     [BaseBody EXCEPT !.start_date = <<"2", "0", "2", "5">>],
     [BaseBody EXCEPT !.end_date = <<" ">>],
     [BaseBody EXCEPT !.end_date = <<"0", "1", "-", "x">>]}

Bodies == ProductBodies \cup VariedBodies

\* Total's query strings: every window over two months; every combination
\* of the filters; and one parameter at a time made invalid
BaseQuery ==
    [start_date |-> S122024, end_date |-> S012025, user_id |-> <<>>,
     service_name |-> <<>>]

WindowQueries ==
    {[BaseQuery EXCEPT !.start_date = s, !.end_date = e] :
        s \in {S122024, S012025}, e \in {S122024, S012025}}

FilterQueries ==
    {[BaseQuery EXCEPT !.user_id = u, !.service_name = n] :
        u \in {<<>>, <<"a">>, <<"B">>}, n \in {<<>>, Netflix, <<" ", "s", " ">>}}

ProductQueries == WindowQueries \cup FilterQueries

VariedQueries ==
    {[BaseQuery EXCEPT !.start_date = <<>>],
     [BaseQuery EXCEPT !.end_date = <<" ">>],
     [BaseQuery EXCEPT !.start_date = <<"1", "3", "-", "2", "0", "2", "5">>],
     [BaseQuery EXCEPT !.end_date = <<"2", "0", "2", "5">>],
     [BaseQuery EXCEPT !.user_id = <<"x">>],
     [BaseQuery EXCEPT !.user_id = <<" ">>, !.service_name = <<" ">>]}

TotalQueries == ProductQueries \cup VariedQueries

\* List's query strings
ListQueries ==
    {[EmptyQuery EXCEPT !.user_id = u, !.service_name = n] :
        u \in {<<>>, <<"a">>, <<"B">>, <<"x">>}, n \in {<<>>, Netflix, <<" ", "s", " ">>}}

\* the i-th id uuid.New hands out
NewUUID(i) == <<"c", DigitChar[i + 1]>>

\* the :id path parameters: the ids handed out, and one that is no UUID
PathIds == {NewUUID(i) : i \in 1..MaxIds} \cup {<<"x">>}

\* what a repository call may meet: nothing, the expiry of the request's
\* deadline, or another failure of the database
Faults == {"none", "deadline", "failure"}

----------------------------------------------------------------------------
\* arguments of ParseMonthYear: every month text before every year text, and
\* strings of other shapes
MonthTexts ==
    {<<"0", "7">>, <<"7">>, <<"0", "0">>, <<"0", "1">>, <<"1", "2">>, <<"1", "3">>,
     <<"+", "7">>, <<"0", "0", "7">>, <<"a", "a">>, <<>>}

YearTexts ==
    {<<"1", "8", "9", "9">>, <<"1", "9", "0", "0">>, <<"1", "9", "0", "1">>,
     <<"2", "0", "2", "5">>, <<"2", "4", "9", "9">>, <<"2", "5", "0", "0">>,
     <<"2", "5">>, <<"0", "2", "0", "2", "5">>, <<"2", "0", "2", "5", "5">>,
     <<"a", "a">>, <<>>}

OtherTexts ==
    {<<>>, <<" ">>, <<"0", "7">>,
     <<"2", "0", "2", "5", "-", "0", "7">>,
     <<"0", "7", "-", "2", "0", "2", "5", "-", "0", "1">>,
     <<"0", "7", "-", "-", "2", "0", "2", "5">>,
     <<"-", "1", "-", "2", "0", "2", "5">>,
     <<"0", "7", " ", "-", "2", "0", "2", "5">>,
     <<" ", "0", "7", "-", "2", "0", "2", "5", " ">>,
     <<"0", "7", "/", "2", "0", "2", "5">>}

ParseInputs == {m \o <<"-">> \o y : m \in MonthTexts, y \in YearTexts} \cup OtherTexts

\* arguments of FormatMonthYear: days and hours of months of years within
\* and around the years ParseMonthYear accepts
FormatInputs ==
    {Date(y, m, d, h) :
        y \in {99, 1900, 1901, 2025, 2499, 2500, 9999}, m \in {1, 7, 10, 12},
        d \in {1, 15, 31}, h \in {0, 23}}

----------------------------------------------------------------------------

(* Idle values of the parts a specification does not use *)

StoreIdle ==
    /\ subscriptions = <<>>
    /\ nextId = 1
    /\ req = NoRequest
    /\ resp = NoResponse
    /\ repoErr = NotCalled

EngineIdle ==
    /\ items = <<>>
    /\ periodStart = ZeroTime
    /\ periodEnd = ZeroTime
    /\ total = 0
    /\ idx = 1
    /\ pc = "idle"

MonthsIdle ==
    /\ argStart = ZeroTime
    /\ argEnd = ZeroTime
    /\ months = Nil

UtilsIdle ==
    /\ parseArg = <<>>
    /\ parseRes = Nil
    /\ formatRes = Nil
    /\ formatArg = Nil

ConcIdle == calls = <<>>

CtxIdle == ctxErr = NoErr

WideIdle == wide = <<>>

RunIdle == run = <<>>

----------------------------------------------------------------------------
(* handlers: subscriptions *)

\* c.ShouldBindJSON(&req): the body is JSON of the right types and every
\* field tagged binding:"required" is present and not its zero value
ShouldBindJSON(body) ==
    /\ body.json
    /\ body.service_name # <<>>
    /\ body.price # 0
    /\ body.user_id # <<>>
    /\ body.start_date # <<>>

\* the response of a subscription
toResponse(s) ==
    [id |-> s.ID, service_name |-> s.ServiceName, price |-> s.Price,
     user_id |-> s.UserID, start_date |-> FormatMonthYear(s.StartDate),
     end_date |-> IF s.EndDate # Nil THEN FormatMonthYear(Deref(s.EndDate)) ELSE <<>>,
     created_at |-> s.CreatedAt, updated_at |-> s.UpdatedAt]

ParseFailed(err) == [err |-> err, sub |-> ZeroSubscription]

parseSubscriptionRequest_noOrderCheck(body, id) ==
    LET serviceName == TrimSpace(body.service_name)
        userID == uuidParse(TrimSpace(body.user_id))
        start == ParseMonthYear(TrimSpace(body.start_date))
        end == TrimSpace(body.end_date)
        parsedEnd == ParseMonthYear(end)
    IN  IF serviceName = <<>> THEN ParseFailed("service_name is required")
        ELSE IF body.price < 0 THEN ParseFailed("price must be >= 0")
        ELSE IF userID.err # NoErr THEN ParseFailed("invalid user_id")
        ELSE IF start.err # NoErr THEN ParseFailed(start.err)
        ELSE IF end # <<>> /\ parsedEnd.err # NoErr THEN ParseFailed(parsedEnd.err)
        ELSE [err |-> NoErr,
              sub |-> Subscription(id, serviceName, body.price, userID.id, start.t,
                                   IF end # <<>> THEN Ptr(parsedEnd.t) ELSE Nil, 0, 0)]

parseSubscriptionRequest_noPriceCheck(body, id) ==
    LET serviceName == TrimSpace(body.service_name)
        userID == uuidParse(TrimSpace(body.user_id))
        start == ParseMonthYear(TrimSpace(body.start_date))
        end == TrimSpace(body.end_date)
        parsedEnd == ParseMonthYear(end)
    IN  IF serviceName = <<>> THEN ParseFailed("service_name is required")
        ELSE IF userID.err # NoErr THEN ParseFailed("invalid user_id")
        ELSE IF start.err # NoErr THEN ParseFailed(start.err)
        ELSE IF end # <<>> /\ parsedEnd.err # NoErr THEN ParseFailed(parsedEnd.err)
        ELSE IF end # <<>> /\ Before(parsedEnd.t, start.t)
        THEN ParseFailed("end_date before start_date")
        ELSE [err |-> NoErr,
              sub |-> Subscription(id, serviceName, body.price, userID.id, start.t,
                                   IF end # <<>> THEN Ptr(parsedEnd.t) ELSE Nil, 0, 0)]

parseSubscriptionRequest(body, id) ==
    LET serviceName == TrimSpace(body.service_name)
        userID == uuidParse(TrimSpace(body.user_id))
        start == ParseMonthYear(TrimSpace(body.start_date))
        end == TrimSpace(body.end_date)
        parsedEnd == ParseMonthYear(end)
    IN  IF serviceName = <<>> THEN ParseFailed("service_name is required")
        ELSE IF body.price < 0 THEN ParseFailed("price must be >= 0")
        ELSE IF userID.err # NoErr THEN ParseFailed("invalid user_id")
        ELSE IF start.err # NoErr THEN ParseFailed(start.err)
        ELSE IF end # <<>> /\ parsedEnd.err # NoErr THEN ParseFailed(parsedEnd.err)
        ELSE IF end # <<>> /\ Before(parsedEnd.t, start.t)
        THEN ParseFailed("end_date before start_date")
        ELSE [err |-> NoErr,
              sub |-> Subscription(id, serviceName, body.price, userID.id, start.t,
                                   IF end # <<>> THEN Ptr(parsedEnd.t) ELSE Nil, 0, 0)]

\* what a handler leaves behind: the response, the table, the id counter and
\* the error of its repository call
Outcome(r, table, n, err) == [resp |-> r, table |-> table, nextId |-> n, repoErr |-> err]

\* the reading of the database clock, now(): the number of rows inserted so
\* far, the one being inserted counted; n is the number of the next id
ClockAtInsert(n) == n

ClockAtUpdate(n) == n - 1

\* SubscriptionsHandler.Create; n is the number of the id uuid.New returns
CreateHandler(table, n, body, fault) ==
    LET parsed == parseSubscriptionRequest(body, NewUUID(n))
        r == repoCreate(table, parsed.sub, ClockAtInsert(n), fault)
    IN  IF ~ShouldBindJSON(body)
        THEN Outcome(ErrorResponse(400, "invalid json"), table, n, NotCalled)
        ELSE IF parsed.err # NoErr
        THEN Outcome(ErrorResponse(400, parsed.err), table, n, NotCalled)
        ELSE IF r.err # NoErr
        THEN Outcome(ErrorResponse(500, "db error"), r.table, n, r.err)
        ELSE Outcome(Response(201, "", <<toResponse(r.out)>>, Nil, <<>>, <<>>),
                     r.table, n + 1, NoErr)

\* SubscriptionsHandler.Get
GetHandler(table, n, idStr, fault) ==
    LET id == uuidParse(idStr)
        r == repoGetByID(table, id.id, fault)
    IN  IF id.err # NoErr
        THEN Outcome(ErrorResponse(400, "invalid id"), table, n, NotCalled)
        ELSE IF r.err # NoErr
        THEN Outcome(ErrorResponse(404, "not found"), table, n, r.err)
        ELSE Outcome(Response(200, "", <<toResponse(r.out)>>, Nil, <<>>, <<>>),
                     table, n, NoErr)

\* SubscriptionsHandler.Update
UpdateHandler(table, n, idStr, body, fault) ==
    LET id == uuidParse(idStr)
        parsed == parseSubscriptionRequest(body, id.id)
        r == repoUpdate(table, parsed.sub, ClockAtUpdate(n), fault)
    IN  IF id.err # NoErr
        THEN Outcome(ErrorResponse(400, "invalid id"), table, n, NotCalled)
        ELSE IF ~ShouldBindJSON(body)
        THEN Outcome(ErrorResponse(400, "invalid json"), table, n, NotCalled)
        ELSE IF parsed.err # NoErr
        THEN Outcome(ErrorResponse(400, parsed.err), table, n, NotCalled)
        ELSE IF r.err # NoErr
        THEN Outcome(ErrorResponse(500, "db error"), r.table, n, r.err)
        ELSE Outcome(Response(200, "", <<toResponse(r.out)>>, Nil, <<>>, <<>>),
                     r.table, n, NoErr)

\* SubscriptionsHandler.Delete
DeleteHandler(table, n, idStr, fault) ==
    LET id == uuidParse(idStr)
        r == repoDelete(table, id.id, fault)
    IN  IF id.err # NoErr
        THEN Outcome(ErrorResponse(400, "invalid id"), table, n, NotCalled)
        ELSE IF r.err # NoErr
        THEN Outcome(ErrorResponse(404, "not found"), r.table, n, r.err)
        ELSE Outcome(Response(204, "", <<>>, Nil, <<>>, <<>>), r.table, n, NoErr)

\* SubscriptionsHandler.List; listed is what repo.List returned
ListHandler(table, n, query, fault, listed) ==
    LET userID == uuidParse(TrimSpace(query.user_id))
    IN  IF TrimSpace(query.user_id) # <<>> /\ userID.err # NoErr
        THEN Outcome(ErrorResponse(400, "invalid user_id"), table, n, NotCalled)
        ELSE IF fault # "none"
        THEN Outcome(ErrorResponse(500, "db error"), table, n, FaultErr(fault))
        ELSE Outcome(Response(200, "", [i \in 1..Len(listed) |-> toResponse(listed[i])],
                              Nil, <<>>, <<>>),
                     table, n, NoErr)

\* List, Total: the optional filters as the repository gets them
UserFilter(query) ==
    IF TrimSpace(query.user_id) # <<>>
    THEN Ptr(uuidParse(TrimSpace(query.user_id)).id) ELSE Nil

ServiceFilter(query) ==
    IF TrimSpace(query.service_name) # <<>>
    THEN Ptr(TrimSpace(query.service_name)) ELSE Nil

TotalRejects_skipsEndDate(query) ==
    LET startStr == TrimSpace(query.start_date)
        endStr == TrimSpace(query.end_date)
        v == TrimSpace(query.user_id)
    IN  IF startStr = <<>> \/ endStr = <<>>
        THEN ErrorResponse(400, "start_date and end_date required")
        ELSE IF ParseMonthYear(startStr).err # NoErr
        THEN ErrorResponse(400, "invalid start_date")
        ELSE IF v # <<>> /\ uuidParse(v).err # NoErr
        THEN ErrorResponse(400, "invalid user_id")
        ELSE NoResponse

\* AggregationHandler.Total up to the repository call: the error response of
\* a request that does not get that far, NoResponse of one that does
TotalRejects(query) ==
    LET startStr == TrimSpace(query.start_date)
        endStr == TrimSpace(query.end_date)
        v == TrimSpace(query.user_id)
    IN  IF startStr = <<>> \/ endStr = <<>>
        THEN ErrorResponse(400, "start_date and end_date required")
        ELSE IF ParseMonthYear(startStr).err # NoErr
        THEN ErrorResponse(400, "invalid start_date")
        ELSE IF ParseMonthYear(endStr).err # NoErr
        THEN ErrorResponse(400, "invalid end_date")
        ELSE IF v # <<>> /\ uuidParse(v).err # NoErr
        THEN ErrorResponse(400, "invalid user_id")
        ELSE NoResponse

\* AggregationHandler.Total on a table: the answers it may write to query
\* when the repository call succeeds, one for every order ListOverlapping
\* may return the rows in
TotalAnswers(table, query) ==
    LET pStart == ParseMonthYear(TrimSpace(query.start_date)).t
        pEnd == ParseMonthYear(TrimSpace(query.end_date)).t
    IN  IF TotalRejects(query) # NoResponse THEN {TotalRejects(query)}
        ELSE {TotalResponse(Aggregate(fetched, pStart, pEnd),
                            TrimSpace(query.start_date), TrimSpace(query.end_date)) :
                fetched \in repoListOverlapping(table, UserFilter(query),
                                                ServiceFilter(query), pStart, pEnd)}

----------------------------------------------------------------------------
(* Spec: the handlers serving one request after another on one table *)

Init ==
    /\ StoreIdle
    /\ EngineIdle
    /\ MonthsIdle
    /\ UtilsIdle
    /\ ConcIdle
    /\ CtxIdle
    /\ WideIdle
    /\ RunIdle

Serve(request, out) ==
    /\ req' = request
    /\ resp' = out.resp
    /\ subscriptions' = out.table
    /\ nextId' = out.nextId
    /\ repoErr' = out.repoErr

Create ==
    /\ req = NoRequest
    /\ nextId <= MaxIds
    /\ \E body \in Bodies, fault \in Faults :
        Serve(Request("Create", <<>>, body, EmptyQuery),
              CreateHandler(subscriptions, nextId, body, fault))
    /\ UNCHANGED <<engineVars, monthVars, utilVars, concVars, ctxVars, wideVars, runVars>>

Get ==
    /\ req = NoRequest
    /\ \E idStr \in PathIds, fault \in Faults :
        Serve(Request("Get", idStr, EmptyBody, EmptyQuery),
              GetHandler(subscriptions, nextId, idStr, fault))
    /\ UNCHANGED <<engineVars, monthVars, utilVars, concVars, ctxVars, wideVars, runVars>>

Update ==
    /\ req = NoRequest
    /\ \E idStr \in PathIds, body \in Bodies, fault \in Faults :
        Serve(Request("Update", idStr, body, EmptyQuery),
              UpdateHandler(subscriptions, nextId, idStr, body, fault))
    /\ UNCHANGED <<engineVars, monthVars, utilVars, concVars, ctxVars, wideVars, runVars>>

Delete ==
    /\ req = NoRequest
    /\ \E idStr \in PathIds, fault \in Faults :
        Serve(Request("Delete", idStr, EmptyBody, EmptyQuery),
              DeleteHandler(subscriptions, nextId, idStr, fault))
    /\ UNCHANGED <<engineVars, monthVars, utilVars, concVars, ctxVars, wideVars, runVars>>

List ==
    /\ req = NoRequest
    /\ \E query \in ListQueries, fault \in Faults :
        \E listed \in repoList(subscriptions, UserFilter(query), ServiceFilter(query)) :
            Serve(Request("List", <<>>, EmptyBody, query),
                  ListHandler(subscriptions, nextId, query, fault, listed))
    /\ UNCHANGED <<engineVars, monthVars, utilVars, concVars, ctxVars, wideVars, runVars>>

\* AggregationHandler.Total: a request rejected before the repository call
TotalRejected ==
    /\ req = NoRequest
    /\ \E query \in TotalQueries :
        /\ TotalRejects(query) # NoResponse
        /\ Serve(Request("Total", <<>>, EmptyBody, query),
                 Outcome(TotalRejects(query), subscriptions, nextId, NotCalled))
    /\ UNCHANGED <<engineVars, monthVars, utilVars, concVars, ctxVars, wideVars, runVars>>

TotalFailed_answersZero ==
    /\ req = NoRequest
    /\ \E query \in TotalQueries, fault \in Faults \ {"none"} :
        /\ TotalRejects(query) = NoResponse
        /\ Serve(Request("Total", <<>>, EmptyBody, query),
                 Outcome(TotalResponse(0, TrimSpace(query.start_date),
                                       TrimSpace(query.end_date)),
                         subscriptions, nextId, FaultErr(fault)))
    /\ UNCHANGED <<engineVars, monthVars, utilVars, concVars, ctxVars, wideVars, runVars>>

\* AggregationHandler.Total: ListOverlapping fails
TotalFailed ==
    /\ req = NoRequest
    /\ \E query \in TotalQueries, fault \in Faults \ {"none"} :
        /\ TotalRejects(query) = NoResponse
        /\ Serve(Request("Total", <<>>, EmptyBody, query),
                 Outcome(ErrorResponse(500, "db error"), subscriptions, nextId,
                         FaultErr(fault)))
    /\ UNCHANGED <<engineVars, monthVars, utilVars, concVars, ctxVars, wideVars, runVars>>

Total_clampsRows ==
    /\ req = NoRequest
    /\ \E query \in TotalQueries :
        LET pStart == ParseMonthYear(TrimSpace(query.start_date)).t
            pEnd == ParseMonthYear(TrimSpace(query.end_date)).t
        IN  /\ TotalRejects(query) = NoResponse
            /\ \E fetched \in repoListOverlapping(subscriptions, UserFilter(query),
                                                  ServiceFilter(query), pStart, pEnd) :
                /\ items' = fetched
                /\ periodStart' = pStart
                /\ periodEnd' = pEnd
                /\ total' = Aggregate(fetched, pStart, pEnd)
                /\ idx' = Len(fetched) + 1
                /\ pc' = "done"
                /\ Serve(Request("Total", <<>>, EmptyBody, query),
                         Outcome(TotalResponse(Aggregate(fetched, pStart, pEnd),
                                               TrimSpace(query.start_date),
                                               TrimSpace(query.end_date)),
                                 [id \in DOMAIN subscriptions |->
                                    [subscriptions[id] EXCEPT
                                        !.StartDate = activeStart(subscriptions[id], pStart)]],
                                 nextId, NoErr))
    /\ UNCHANGED <<monthVars, utilVars, concVars, ctxVars, wideVars, runVars>>

\* AggregationHandler.Total: ListOverlapping returns fetched, the loop runs
\* over it and the total is answered
Total ==
    /\ req = NoRequest
    /\ \E query \in TotalQueries :
        LET pStart == ParseMonthYear(TrimSpace(query.start_date)).t
            pEnd == ParseMonthYear(TrimSpace(query.end_date)).t
        IN  /\ TotalRejects(query) = NoResponse
            /\ \E fetched \in repoListOverlapping(subscriptions, UserFilter(query),
                                                  ServiceFilter(query), pStart, pEnd) :
                /\ items' = fetched
                /\ periodStart' = pStart
                /\ periodEnd' = pEnd
                /\ total' = Aggregate(fetched, pStart, pEnd)
                /\ idx' = Len(fetched) + 1
                /\ pc' = "done"
                /\ Serve(Request("Total", <<>>, EmptyBody, query),
                         Outcome(TotalResponse(Aggregate(fetched, pStart, pEnd),
                                               TrimSpace(query.start_date),
                                               TrimSpace(query.end_date)),
                                 subscriptions, nextId, NoErr))
    /\ UNCHANGED <<monthVars, utilVars, concVars, ctxVars, wideVars, runVars>>

\* the response has gone out: the server takes the next request
Finish ==
    /\ req # NoRequest
    /\ req' = NoRequest
    /\ resp' = NoResponse
    /\ repoErr' = NotCalled
    /\ items' = <<>>
    /\ periodStart' = ZeroTime
    /\ periodEnd' = ZeroTime
    /\ total' = 0
    /\ idx' = 1
    /\ pc' = "idle"
    /\ UNCHANGED <<subscriptions, nextId, monthVars, utilVars, concVars, ctxVars, wideVars,
                   runVars>>

Next ==
    \/ Create
    \/ Get
    \/ Update
    \/ Delete
    \/ List
    \/ TotalRejected
    \/ TotalFailed
    \/ Total
    \/ Finish

Spec == Init /\ [][Next]_vars

----------------------------------------------------------------------------
(* SpecEngine: Total from the return of the collaborator on, the            *)
(* collaborator being any function that returns a candidate sequence        *)

InitEngine ==
    /\ \E in \in EngineInputs :
        /\ req = Request("Total", <<>>, EmptyBody,
                         [EmptyQuery EXCEPT !.start_date = in.start, !.end_date = in.end])
        /\ items = in.items
        /\ periodStart = ParseMonthYear(in.start).t
        /\ periodEnd = ParseMonthYear(in.end).t
    /\ total = 0
    /\ idx = 1
    /\ pc = "loop"
    /\ resp = NoResponse
    /\ repoErr = NoErr
    /\ subscriptions = <<>>
    /\ nextId = 1
    /\ MonthsIdle
    /\ UtilsIdle
    /\ ConcIdle
    /\ CtxIdle
    /\ WideIdle
    /\ RunIdle

\* one iteration of `for _, s := range items`
LoopIter ==
    /\ pc = "loop"
    /\ idx <= Len(items)
    /\ total' = LoopBody(total, items[idx], periodStart, periodEnd)
    /\ idx' = idx + 1
    /\ UNCHANGED <<items, periodStart, periodEnd, pc, storeVars, monthVars, utilVars,
                   concVars, ctxVars, wideVars, runVars>>

LoopExit_timesOut ==
    /\ pc = "loop"
    /\ idx > Len(items)
    /\ pc' = "done"
    /\ resp' = IF ctxErr # NoErr THEN ErrorResponse(504, "timeout")
               ELSE TotalResponse(total, req.query.start_date, req.query.end_date)
    /\ UNCHANGED <<items, periodStart, periodEnd, total, idx,
                   subscriptions, nextId, req, repoErr, monthVars, utilVars, concVars,
                   ctxVars, wideVars, runVars>>

\* the loop is over: the answer is written
LoopExit ==
    /\ pc = "loop"
    /\ idx > Len(items)
    /\ pc' = "done"
    /\ resp' = TotalResponse(total, req.query.start_date, req.query.end_date)
    /\ UNCHANGED <<items, periodStart, periodEnd, total, idx,
                   subscriptions, nextId, req, repoErr, monthVars, utilVars, concVars,
                   ctxVars, wideVars, runVars>>

NextEngine == LoopIter \/ LoopExit

SpecEngine == InitEngine /\ [][NextEngine]_vars

----------------------------------------------------------------------------
(* SpecLive: Total from the return of the collaborator on, the goroutine    *)
(* being scheduled for as long as it can run, while the deadline of the     *)
(* request's context may expire at any moment                               *)

LiveCandidates ==
    {Candidate(500, Month(2025, 1), Nil),
     Candidate(300, Month(2025, 2), Ptr(Month(2025, 2))),
     Candidate(500, Month(2025, 5), Nil)}

LiveInputs ==
    [items : SeqsUpTo(LiveCandidates, MaxCandidates),
     start : {S012025, S032025}, end : {S012025, S032025}]

InitLive ==
    /\ \E in \in LiveInputs :
        /\ req = Request("Total", <<>>, EmptyBody,
                         [EmptyQuery EXCEPT !.start_date = in.start, !.end_date = in.end])
        /\ items = in.items
        /\ periodStart = ParseMonthYear(in.start).t
        /\ periodEnd = ParseMonthYear(in.end).t
    /\ total = 0
    /\ idx = 1
    /\ pc = "loop"
    /\ resp = NoResponse
    /\ repoErr = NoErr
    /\ subscriptions = <<>>
    /\ nextId = 1
    /\ ctxErr = NoErr
    /\ MonthsIdle
    /\ UtilsIdle
    /\ ConcIdle
    /\ WideIdle
    /\ RunIdle

\* the timer of context.WithTimeout fires while the loop runs
DeadlineExpires ==
    /\ pc = "loop"
    /\ ctxErr = NoErr
    /\ ctxErr' = DeadlineExceeded
    /\ UNCHANGED <<storeVars, engineVars, monthVars, utilVars, concVars, wideVars, runVars>>

NextLive == LoopIter \/ LoopExit \/ DeadlineExpires

SpecLive ==
    InitLive /\ [][NextLive]_vars /\ WF_vars(LoopIter) /\ WF_vars(LoopExit)

----------------------------------------------------------------------------

(* SpecMonths: monthsInclusive on month-normalized dates *)

NextMonth(d) ==
    IF d.month = 12 THEN Month(d.year + 1, 1) ELSE Month(d.year, d.month + 1)

InitMonths ==
    /\ argStart \in MonthDates
    /\ argEnd \in MonthDates
    /\ months = Nil
    /\ StoreIdle
    /\ EngineIdle
    /\ UtilsIdle
    /\ ConcIdle
    /\ CtxIdle
    /\ WideIdle
    /\ RunIdle

CallMonthsInclusive ==
    /\ months = Nil
    /\ months' = Ptr(monthsInclusive(argStart, argEnd))
    /\ UNCHANGED <<argStart, argEnd, storeVars, engineVars, utilVars, concVars, ctxVars,
                   wideVars, runVars>>

\* the same call with the end one month later
AdvanceEnd ==
    /\ months # Nil
    /\ NextMonth(argEnd) \in MonthDates
    /\ argEnd' = NextMonth(argEnd)
    /\ months' = Ptr(monthsInclusive(argStart, argEnd'))
    /\ UNCHANGED <<argStart, storeVars, engineVars, utilVars, concVars, ctxVars, wideVars, runVars>>

NextMonths == CallMonthsInclusive \/ AdvanceEnd

SpecMonths == InitMonths /\ [][NextMonths]_vars

----------------------------------------------------------------------------
(* SpecParse: ParseMonthYear and FormatMonthYear, on strings that are     *)
(* parsed and then formatted, and on dates that are formatted and then     *)
(* parsed                                                                  *)

InitParse ==
    /\ \/ parseArg \in ParseInputs /\ formatArg = Nil
       \/ parseArg = <<>> /\ formatArg \in {Ptr(t) : t \in FormatInputs}
    /\ parseRes = Nil
    /\ formatRes = Nil
    /\ StoreIdle
    /\ EngineIdle
    /\ MonthsIdle
    /\ ConcIdle
    /\ CtxIdle
    /\ WideIdle
    /\ RunIdle

CallParseMonthYear ==
    /\ formatArg = Nil
    /\ parseRes = Nil
    /\ parseRes' = Ptr(ParseMonthYear(parseArg))
    /\ UNCHANGED <<parseArg, formatRes, formatArg, storeVars, engineVars, monthVars,
                   concVars, ctxVars, wideVars, runVars>>

\* the date parsed is formatted, as toResponse does with a stored date
CallFormatMonthYear ==
    /\ formatArg = Nil
    /\ parseRes # Nil
    /\ Deref(parseRes).err = NoErr
    /\ formatRes = Nil
    /\ formatRes' = Ptr(FormatMonthYear(Deref(parseRes).t))
    /\ UNCHANGED <<parseArg, parseRes, formatArg, storeVars, engineVars, monthVars,
                   concVars, ctxVars, wideVars, runVars>>

\* a date is formatted
FormatDate ==
    /\ formatArg # Nil
    /\ formatRes = Nil
    /\ formatRes' = Ptr(FormatMonthYear(Deref(formatArg)))
    /\ UNCHANGED <<parseArg, parseRes, formatArg, storeVars, engineVars, monthVars,
                   concVars, ctxVars, wideVars, runVars>>

\* the string FormatMonthYear returned is parsed
ParseFormatted ==
    /\ formatArg # Nil
    /\ formatRes # Nil
    /\ parseRes = Nil
    /\ parseArg' = Deref(formatRes)
    /\ parseRes' = Ptr(ParseMonthYear(Deref(formatRes)))
    /\ UNCHANGED <<formatRes, formatArg, storeVars, engineVars, monthVars,
                   concVars, ctxVars, wideVars, runVars>>

NextParse == CallParseMonthYear \/ CallFormatMonthYear \/ FormatDate \/ ParseFormatted

SpecParse == InitParse /\ [][NextParse]_vars

----------------------------------------------------------------------------
(* SpecWide: the loop of Total with `total`, `months` and s.Price as the    *)
(* 64-bit `int` of the build.  A number is the little-endian sequence of    *)
(* its digits in base LimbBase; an int has IntLimbs of them and is          *)
(* negative when the last one has its top bit set.                          *)

LimbBase == 256 * 256

\* the width of `int`, in limbs
IntLimbs == 4

\* the largest value of the column `price integer`
MaxPrice == 2147483647

\* the i-th limb of a non-negative number below LimbBase * LimbBase
Limb(n, i) == IF i = 1 THEN n % LimbBase ELSE IF i = 2 THEN n \div LimbBase ELSE 0

\* the carries of the column sums x, from limb i on; the carry out of the
\* last limb is lost
RECURSIVE CarryFrom(_, _, _)
CarryFrom(x, i, carry) ==
    IF i > Len(x) THEN x
    ELSE CarryFrom([x EXCEPT ![i] = (x[i] + carry) % LimbBase], i + 1,
                   (x[i] + carry) \div LimbBase)

\* m * p in width limbs, for 0 <= m < 2^13 and 0 <= p < 2^31
WideMul(m, p, width) == CarryFrom([i \in 1..width |-> m * Limb(p, i)], 1, 0)

\* a + b in the limbs of a
WideAdd(a, b) == CarryFrom([i \in 1..Len(a) |-> a[i] + b[i]], 1, 0)

\* months * s.Price
IntMul(m, p) == WideMul(m, p, IntLimbs)

IntAdd_int32(a, b) ==
    [i \in 1..Len(a) |-> IF i <= Len(a) \div 2 THEN WideAdd(a, b)[i] ELSE 0]

\* total += product
IntAdd(a, b) == WideAdd(a, b)

IntZero == [i \in 1..IntLimbs |-> 0]

\* an int is negative
IntNegative(a) == a[Len(a)] >= LimbBase \div 2

\* the same numbers as integers of mathematics: limbs enough for any sum
\* of MaxWideItems + 1 products
MathLimbs == IntLimbs + 2

MathZero == [i \in 1..MathLimbs |-> 0]

\* the integer an int stands for, when it is not negative
IntToMath(a) == [i \in 1..MathLimbs |-> IF i <= Len(a) THEN a[i] ELSE 0]

\* prices stored in the column, and month counts of a window of parseable
\* months
WidePrices == {0, 1, MaxPrice}

WideMonths == {1, monthsInclusive(Month(1901, 1), Month(2499, 12))}

\* every candidate of one request has the same price and month count
InitWide ==
    /\ \E p \in WidePrices, m \in WideMonths :
        wide = [price |-> p, months |-> m, n |-> 0, pc |-> "loop",
                product |-> IntZero, total |-> IntZero,
                sum |-> MathZero, answer |-> Nil]
    /\ StoreIdle
    /\ EngineIdle
    /\ MonthsIdle
    /\ UtilsIdle
    /\ ConcIdle
    /\ CtxIdle
    /\ RunIdle

\* one iteration of the range loop on a candidate that is not skipped; sum
\* is not of the program: it is the sum of the products as integers
WideIter ==
    /\ wide.pc = "loop"
    /\ wide.n < MaxWideItems
    /\ wide' = [wide EXCEPT
                    !.n = @ + 1,
                    !.product = IntMul(wide.months, wide.price),
                    !.total = IntAdd(@, IntMul(wide.months, wide.price)),
                    !.sum = WideAdd(@, WideMul(wide.months, wide.price, MathLimbs))]
    /\ UNCHANGED <<storeVars, engineVars, monthVars, utilVars, concVars, ctxVars, runVars>>

\* the loop is over after any number of candidates: total is answered
WideExit ==
    /\ wide.pc = "loop"
    /\ wide' = [wide EXCEPT !.pc = "done", !.answer = Ptr(wide.total)]
    /\ UNCHANGED <<storeVars, engineVars, monthVars, utilVars, concVars, ctxVars, runVars>>

NextWide == WideIter \/ WideExit

SpecWide == InitWide /\ [][NextWide]_vars

----------------------------------------------------------------------------
(* SpecSteps: each handler statement by statement.  run.step is the next    *)
(* statement of the handler serving req, run.written the responses it has  *)
(* written with c.JSON or c.Status, run.out what its repository call       *)
(* returned.  The goroutine serving a request keeps running.               *)

StepBodies ==
    {BaseBody,
     [BaseBody EXCEPT !.price = 300],
     [BaseBody EXCEPT !.json = FALSE],
     [BaseBody EXCEPT !.price = 0],
     [BaseBody EXCEPT !.service_name = <<" ">>],
     [BaseBody EXCEPT !.price = 0 - 1],
     [BaseBody EXCEPT !.user_id = <<"x">>],
     [BaseBody EXCEPT !.start_date = <<"2", "0", "2", "5">>],
     [BaseBody EXCEPT !.end_date = S122024]}

StepQueries ==
    {BaseQuery,
     [BaseQuery EXCEPT !.start_date = <<>>],
     [BaseQuery EXCEPT !.end_date = <<"2", "0", "2", "5">>],
     [BaseQuery EXCEPT !.user_id = <<"x">>]}

StepRequests ==
    {Request("Create", <<>>, body, EmptyQuery) : body \in StepBodies}
    \cup {Request("Update", id, body, EmptyQuery) : id \in PathIds, body \in StepBodies}
    \cup {Request(h, id, EmptyBody, EmptyQuery) : h \in {"Get", "Delete"}, id \in PathIds}
    \cup {Request("List", <<>>, EmptyBody, [EmptyQuery EXCEPT !.user_id = u]) :
            u \in {<<>>, <<"a">>, <<"x">>}}
    \cup {Request("Total", <<>>, EmptyBody, query) : query \in StepQueries}

\* the ids parseSubscriptionRequest is given: a fresh one in Create, the
\* parsed path parameter in Update
StepIds == {NewUUID(i) : i \in 1..MaxIds} \cup {uuidParse(id).id : id \in PathIds}

\* parseSubscriptionRequest, ParseMonthYear and the checks of Total on the
\* requests of StepRequests
StepParsed == [body \in StepBodies, id \in StepIds |-> parseSubscriptionRequest(body, id)]

StepPeriod ==
    [query \in StepQueries |->
        [start |-> ParseMonthYear(TrimSpace(query.start_date)).t,
         end |-> ParseMonthYear(TrimSpace(query.end_date)).t]]

StepRejects == [query \in StepQueries |-> TotalRejects(query)]

Run(step, written, out) == [step |-> step, written |-> written, out |-> out]

\* the first statement of each handler
FirstStep(handler) ==
    CASE handler = "Create" -> "bind"
      [] handler \in {"Get", "Update", "Delete"} -> "id"
      [] handler = "List" -> "filter"
      [] handler = "Total" -> "params"

\* c.JSON(status, ...) followed by return
JSONReturn(response) ==
    run' = [run EXCEPT !.written = Append(@, response), !.step = "returned"]

\* the statement after a check that passed
Goto(step) == run' = [run EXCEPT !.step = step]

InitSteps ==
    /\ run = Run("idle", <<>>, <<>>)
    /\ StoreIdle
    /\ EngineIdle
    /\ MonthsIdle
    /\ UtilsIdle
    /\ ConcIdle
    /\ CtxIdle
    /\ WideIdle

\* gin calls the handler of the route with the request
Arrive ==
    /\ run.step = "idle"
    /\ \E request \in StepRequests :
        /\ request.handler = "Create" => nextId <= MaxIds
        /\ req' = request
        /\ run' = Run(FirstStep(request.handler), <<>>, <<>>)
    /\ UNCHANGED <<subscriptions, nextId, resp, repoErr, engineVars, monthVars, utilVars,
                   concVars, ctxVars, wideVars>>

\* Get, Update, Delete: uuid.Parse(c.Param("id"))
StepId ==
    /\ run.step = "id"
    /\ IF uuidParse(req.id).err # NoErr
       THEN JSONReturn(ErrorResponse(400, "invalid id"))
       ELSE Goto(IF req.handler = "Update" THEN "bind" ELSE "repo")
    /\ UNCHANGED <<storeVars, engineVars, monthVars, utilVars, concVars, ctxVars, wideVars>>

StepBind_noReturn ==
    /\ run.step = "bind"
    /\ IF ~ShouldBindJSON(req.body)
       THEN run' = [run EXCEPT !.written = Append(@, ErrorResponse(400, "invalid json")),
                               !.step = "parse"]
       ELSE Goto("parse")
    /\ UNCHANGED <<storeVars, engineVars, monthVars, utilVars, concVars, ctxVars, wideVars>>

\* Create, Update: c.ShouldBindJSON(&req)
StepBind ==
    /\ run.step = "bind"
    /\ IF ~ShouldBindJSON(req.body)
       THEN JSONReturn(ErrorResponse(400, "invalid json"))
       ELSE Goto("parse")
    /\ UNCHANGED <<storeVars, engineVars, monthVars, utilVars, concVars, ctxVars, wideVars>>

\* the id Create and Update give to parseSubscriptionRequest
StepGivenId == IF req.handler = "Create" THEN NewUUID(nextId) ELSE uuidParse(req.id).id

\* Create, Update: parseSubscriptionRequest
StepParse ==
    /\ run.step = "parse"
    /\ IF StepParsed[req.body, StepGivenId].err # NoErr
       THEN JSONReturn(ErrorResponse(400, StepParsed[req.body, StepGivenId].err))
       ELSE Goto("repo")
    /\ UNCHANGED <<storeVars, engineVars, monthVars, utilVars, concVars, ctxVars, wideVars>>

\* List: the user_id filter
StepFilter ==
    /\ run.step = "filter"
    /\ IF TrimSpace(req.query.user_id) # <<>>
          /\ uuidParse(TrimSpace(req.query.user_id)).err # NoErr
       THEN JSONReturn(ErrorResponse(400, "invalid user_id"))
       ELSE Goto("repo")
    /\ UNCHANGED <<storeVars, engineVars, monthVars, utilVars, concVars, ctxVars, wideVars>>

\* Total: the checks of start_date, end_date and user_id
StepParams ==
    /\ run.step = "params"
    /\ IF StepRejects[req.query] # NoResponse
       THEN JSONReturn(StepRejects[req.query])
       ELSE Goto("repo")
    /\ UNCHANGED <<storeVars, engineVars, monthVars, utilVars, concVars, ctxVars, wideVars>>

\* the repository call has returned r: on an error the handler answers
\* status and returns, otherwise it goes on with what was returned
AfterRepo(r, table, n, status, error, out) ==
    /\ repoErr' = r.err
    /\ IF r.err # NoErr
       THEN /\ JSONReturn(ErrorResponse(status, error))
            /\ UNCHANGED <<subscriptions, nextId>>
       ELSE /\ run' = [run EXCEPT !.step = "respond", !.out = out]
            /\ subscriptions' = table
            /\ nextId' = n

\* Create: h.repo.Create(ctx, sub)
StepRepoCreate ==
    /\ run.step = "repo"
    /\ req.handler = "Create"
    /\ \E fault \in Faults :
        LET r == repoCreate(subscriptions, StepParsed[req.body, StepGivenId].sub,
                            ClockAtInsert(nextId), fault)
        IN  AfterRepo(r, r.table, nextId + 1, 500, "db error", <<r.out>>)
    /\ UNCHANGED <<req, resp, engineVars, monthVars, utilVars, concVars, ctxVars, wideVars>>

\* Get: h.repo.GetByID(ctx, id)
StepRepoGet ==
    /\ run.step = "repo"
    /\ req.handler = "Get"
    /\ \E fault \in Faults :
        LET r == repoGetByID(subscriptions, uuidParse(req.id).id, fault)
        IN  AfterRepo(r, subscriptions, nextId, 404, "not found", <<r.out>>)
    /\ UNCHANGED <<req, resp, engineVars, monthVars, utilVars, concVars, ctxVars, wideVars>>

\* Update: h.repo.Update(ctx, sub)
StepRepoUpdate ==
    /\ run.step = "repo"
    /\ req.handler = "Update"
    /\ \E fault \in Faults :
        LET r == repoUpdate(subscriptions, StepParsed[req.body, StepGivenId].sub,
                            ClockAtUpdate(nextId), fault)
        IN  AfterRepo(r, r.table, nextId, 500, "db error", <<r.out>>)
    /\ UNCHANGED <<req, resp, engineVars, monthVars, utilVars, concVars, ctxVars, wideVars>>

\* Delete: h.repo.Delete(ctx, id)
StepRepoDelete ==
    /\ run.step = "repo"
    /\ req.handler = "Delete"
    /\ \E fault \in Faults :
        LET r == repoDelete(subscriptions, uuidParse(req.id).id, fault)
        IN  AfterRepo(r, r.table, nextId, 404, "not found", <<>>)
    /\ UNCHANGED <<req, resp, engineVars, monthVars, utilVars, concVars, ctxVars, wideVars>>

\* List: h.repo.List(ctx, f)
StepRepoList ==
    /\ run.step = "repo"
    /\ req.handler = "List"
    /\ \E fault \in Faults :
        \E listed \in repoList(subscriptions, UserFilter(req.query), ServiceFilter(req.query)) :
            AfterRepo([err |-> FaultErr(fault)], subscriptions, nextId, 500, "db error",
                      listed)
    /\ UNCHANGED <<req, resp, engineVars, monthVars, utilVars, concVars, ctxVars, wideVars>>

\* Total: h.repo.ListOverlapping(ctx, userID, serviceName, periodStart, periodEnd)
StepRepoTotal ==
    /\ run.step = "repo"
    /\ req.handler = "Total"
    /\ \E fault \in Faults :
        \E fetched \in repoListOverlapping(subscriptions, UserFilter(req.query),
                                          ServiceFilter(req.query),
                                          StepPeriod[req.query].start,
                                          StepPeriod[req.query].end) :
            AfterRepo([err |-> FaultErr(fault)], subscriptions, nextId, 500, "db error",
                      fetched)
    /\ UNCHANGED <<req, resp, engineVars, monthVars, utilVars, concVars, ctxVars, wideVars>>

\* the response of a handler whose every check and repository call succeeded
SuccessResponse(request, out) ==
    CASE request.handler = "Create" -> Response(201, "", <<toResponse(out[1])>>, Nil, <<>>, <<>>)
      [] request.handler \in {"Get", "Update"} ->
            Response(200, "", <<toResponse(out[1])>>, Nil, <<>>, <<>>)
      [] request.handler = "Delete" -> Response(204, "", <<>>, Nil, <<>>, <<>>)
      [] request.handler = "List" ->
            Response(200, "", [i \in 1..Len(out) |-> toResponse(out[i])], Nil, <<>>, <<>>)
      [] request.handler = "Total" ->
            TotalResponse(Aggregate(out, ParseMonthYear(TrimSpace(request.query.start_date)).t,
                                    ParseMonthYear(TrimSpace(request.query.end_date)).t),
                          TrimSpace(request.query.start_date),
                          TrimSpace(request.query.end_date))

\* the last statement of a handler: the success response (Total: after its
\* loop)
StepRespond ==
    /\ run.step = "respond"
    /\ run' = [run EXCEPT !.written = Append(@, SuccessResponse(req, run.out)),
                          !.step = "returned"]
    /\ UNCHANGED <<storeVars, engineVars, monthVars, utilVars, concVars, ctxVars, wideVars>>

\* the handler has returned: gin sends what was written
StepReturn ==
    /\ run.step = "returned"
    /\ run' = Run("idle", <<>>, <<>>)
    /\ req' = NoRequest
    /\ repoErr' = NotCalled
    /\ UNCHANGED <<subscriptions, nextId, resp, engineVars, monthVars, utilVars, concVars,
                   ctxVars, wideVars>>

StepOfHandler ==
    \/ StepId
    \/ StepBind
    \/ StepParse
    \/ StepFilter
    \/ StepParams
    \/ StepRepoCreate
    \/ StepRepoGet
    \/ StepRepoUpdate
    \/ StepRepoDelete
    \/ StepRepoList
    \/ StepRepoTotal
    \/ StepRespond
    \/ StepReturn

NextSteps == Arrive \/ StepOfHandler

SpecSteps == InitSteps /\ [][NextSteps]_vars /\ WF_vars(StepOfHandler)

----------------------------------------------------------------------------

(* Reference definitions for the claims: calendar months as integers *)

MonthIndex(d) == d.year * 12 + (d.month - 1)

IntMax(x, y) == IF x >= y THEN x ELSE y
IntMin(x, y) == IF x <= y THEN x ELSE y

IsMonthStart(d) == d.day = 1 /\ d.hour = 0

\* months of overlap of candidate s with the window, by clamping
RefClampedMonths(s, pStart, pEnd) ==
    LET lo == IntMax(MonthIndex(s.StartDate), MonthIndex(pStart))
        hi == IF s.EndDate = Nil THEN MonthIndex(pEnd)
              ELSE IntMin(MonthIndex(Deref(s.EndDate)), MonthIndex(pEnd))
    IN  IF hi < lo THEN 0 ELSE hi - lo + 1

RECURSIVE RefClampedSum(_, _, _)
RefClampedSum(cands, pStart, pEnd) ==
    IF cands = <<>> THEN 0
    ELSE Head(cands).Price * RefClampedMonths(Head(cands), pStart, pEnd)
         + RefClampedSum(Tail(cands), pStart, pEnd)

\* candidate s is active in calendar month m (an index)
RefActiveIn(s, m) ==
    /\ MonthIndex(s.StartDate) <= m
    /\ s.EndDate = Nil \/ m <= MonthIndex(Deref(s.EndDate))

\* the prices of the candidates active in month m, added up
RECURSIVE RefMonthCost(_, _)
RefMonthCost(cands, m) ==
    IF cands = <<>> THEN 0
    ELSE (IF RefActiveIn(Head(cands), m) THEN Head(cands).Price ELSE 0)
         + RefMonthCost(Tail(cands), m)

\* month by month from index lo to index hi
RECURSIVE RefMonthlySum(_, _, _)
RefMonthlySum(cands, lo, hi) ==
    IF hi < lo THEN 0
    ELSE RefMonthCost(cands, lo) + RefMonthlySum(cands, lo + 1, hi)

\* the overlap predicate of the design document, on one candidate
RefOverlaps(s, pStart, pEnd) ==
    /\ MonthIndex(s.StartDate) <= MonthIndex(pEnd)
    /\ s.EndDate = Nil \/ MonthIndex(Deref(s.EndDate)) >= MonthIndex(pStart)

RefOverlapping(cands, pStart, pEnd) ==
    LET Test(s) == RefOverlaps(s, pStart, pEnd) IN SelectSeq(cands, Test)

\* the sequences that are cands in another order
Reorderings(cands) ==
    LET n == Len(cands)
        perms == {f \in [1..n -> 1..n] : \A i \in 1..n : \E j \in 1..n : f[j] = i}
    IN  {[i \in 1..n |-> cands[f[i]]] : f \in perms}

----------------------------------------------------------------------------
(* Claims on the aggregation loop (SpecEngine) *)

\* C1: when the loop is over, the total is the sum over the candidates of
\* price * months of the candidate's lifetime clamped to the window, a
\* candidate whose clamped end is before its clamped start adding nothing and
\* a candidate without end date being bounded by periodEnd.
C1_TotalIsClampedSum ==
    pc = "done" =>
        /\ total = RefClampedSum(items, periodStart, periodEnd)
        /\ resp.total = Ptr(total)

\* the end-to-end example: 3*500 + 1*300 = 1800
C1_Witness ==
    /\ pc = "done"
    /\ items = ExampleEndToEnd.items
    /\ periodStart = Month(2025, 1)
    /\ periodEnd = Month(2025, 3)
    /\ total = 1800

\* C2: for periodStart <= periodEnd the total is the month-by-month sum: for
\* every calendar month of the window, the prices of the candidates active
\* in that month.
C2_TotalIsMonthByMonth ==
    (pc = "done" /\ ~Before(periodEnd, periodStart)) =>
        total = RefMonthlySum(items, MonthIndex(periodStart), MonthIndex(periodEnd))

\* a window over the turn of the year with one candidate inside it for part
\* of it and one for all of it
C2_Witness ==
    /\ pc = "done"
    /\ periodStart = Month(2024, 12)
    /\ periodEnd = Month(2025, 2)
    /\ items = <<Candidate(300, Month(2025, 1), Ptr(Month(2025, 1))),
                 Candidate(500, Month(2024, 12), Nil)>>
    /\ total = 1800

\* C4: the total does not depend on the order of the candidates: the loop
\* run over any reordering of the candidates gives the total just computed.
C4_OrderIndependent ==
    pc = "done" =>
        \A other \in Reorderings(items) :
            Aggregate(other, periodStart, periodEnd) = total

\* two candidates with different, non-zero contributions
C4_Witness ==
    /\ pc = "done"
    /\ Len(items) = 2
    /\ LoopBody(0, items[1], periodStart, periodEnd) > 0
    /\ LoopBody(0, items[2], periodStart, periodEnd) > 0
    /\ LoopBody(0, items[1], periodStart, periodEnd)
         # LoopBody(0, items[2], periodStart, periodEnd)
    /\ Cardinality(Reorderings(items)) = 2

\* C7: whatever the collaborator returned, a candidate that starts after
\* periodEnd or ends before periodStart adds nothing, and the total is the
\* month-by-month sum of the truly overlapping candidates alone.
C7_NonOverlappingAddNothing ==
    pc = "done" =>
        /\ \A i \in 1..Len(items) :
            ~RefOverlaps(items[i], periodStart, periodEnd) =>
                LoopBody(total, items[i], periodStart, periodEnd) = total
        /\ total = RefMonthlySum(RefOverlapping(items, periodStart, periodEnd),
                                 MonthIndex(periodStart), MonthIndex(periodEnd))

\* a superset: one candidate after the window beside one inside it
C7_Witness ==
    /\ pc = "done"
    /\ Len(items) = 2
    /\ ~Before(periodEnd, periodStart)
    /\ ~RefOverlaps(items[1], periodStart, periodEnd)
    /\ RefOverlaps(items[2], periodStart, periodEnd)
    /\ total > 0

\* C8: with periodEnd before periodStart every candidate is skipped and the
\* answer is the ordinary 200 answer with total 0.
C8_DegenerateWindowIsZero ==
    (pc = "done" /\ Before(periodEnd, periodStart)) =>
        /\ total = 0
        /\ resp.status = 200
        /\ resp.error = ""
        /\ resp.total = Ptr(0)

\* a degenerate window with an open-ended and a bounded candidate
C8_Witness ==
    /\ pc = "done"
    /\ Before(periodEnd, periodStart)
    /\ Len(items) = 2
    /\ items[1].EndDate = Nil
    /\ items[2].EndDate # Nil
    /\ resp.status = 200

----------------------------------------------------------------------------
(* Claims on the handlers and the table (Spec) *)

StoredRows == {subscriptions[id] : id \in DOMAIN subscriptions}

Range(seq) == {seq[i] : i \in 1..Len(seq)}

\* what the filter parameters of the requests of the model ask for
RefFilterUser(text) ==
    CASE text = <<"a">> -> Ptr(UserA) [] text = <<"B">> -> Ptr(UserB) [] OTHER -> Nil

RefFilterService(text) ==
    CASE text = Netflix -> Ptr(Netflix)
      [] text = <<" ", "s", " ">> -> Ptr(Spotify)
      [] OTHER -> Nil

RefFiltered(rows, userID, serviceName) ==
    {r \in rows : /\ userID = Nil \/ r.UserID = Deref(userID)
                  /\ serviceName = Nil \/ r.ServiceName = Deref(serviceName)}

\* the calendar month a date string of the model's requests names (-1: none)
RefMonthOfText(text) ==
    CASE text = S122024 -> 2024 * 12 + 11
      [] text = S012025 -> 2025 * 12
      [] text = <<"1", "-", "2", "0", "2", "5">> -> 2025 * 12
      [] OTHER -> 0 - 1

\* the row lives in some calendar month of the window
RefLivesInWindow(r, pStart, pEnd) ==
    \E m \in MonthIndex(pStart)..MonthIndex(pEnd) : RefActiveIn(r, m)

\* the prices of the rows of set S active in month m, added up
RECURSIVE RefSetMonthCost(_, _)
RefSetMonthCost(S, m) ==
    IF S = {} THEN 0
    ELSE LET r == CHOOSE x \in S : TRUE
         IN  (IF RefActiveIn(r, m) THEN r.Price ELSE 0) + RefSetMonthCost(S \ {r}, m)

RECURSIVE RefSetMonthlySum(_, _, _)
RefSetMonthlySum(S, lo, hi) ==
    IF hi < lo THEN 0
    ELSE RefSetMonthCost(S, lo) + RefSetMonthlySum(S, lo + 1, hi)

RefWindowDates == {Month(2024, 11), Month(2024, 12), Month(2025, 1), Month(2025, 2)}
RefUserFilters == {Nil, Ptr(UserA), Ptr(UserB)}
RefServiceFilters == {Nil, Ptr(Netflix), Ptr(Spotify)}

\* C5: in every state of the table and for every window and filters,
\* ListOverlapping returns, once each, exactly the stored rows with
\* startDate <= periodEnd and (endDate null or endDate >= periodStart) that
\* pass the filters; so it leaves out no row that lives in a month of the
\* window; and the candidates of a Total request are such a result.
C5_ListOverlappingIsExact ==
    /\ req = NoRequest =>
        \A pStart \in RefWindowDates, pEnd \in RefWindowDates,
           u \in RefUserFilters, n \in RefServiceFilters :
            LET wanted == {r \in RefFiltered(StoredRows, u, n) :
                              RefOverlaps(r, pStart, pEnd)}
                got == repoListOverlapping(subscriptions, u, n, pStart, pEnd)
            IN  /\ got # {}
                /\ \A seq \in got :
                    /\ Range(seq) = wanted
                    /\ Len(seq) = Cardinality(wanted)
                    /\ \A r \in RefFiltered(StoredRows, u, n) :
                        RefLivesInWindow(r, pStart, pEnd) => r \in Range(seq)
    /\ pc = "done" =>
        /\ Range(items) =
             {r \in RefFiltered(StoredRows, RefFilterUser(req.query.user_id),
                                RefFilterService(req.query.service_name)) :
                 RefOverlaps(r, periodStart, periodEnd)}
        /\ Len(items) = Cardinality(Range(items))

\* a Total request whose candidates are one of two stored rows, the other
\* passing the filters but lying outside the window
C5_Witness ==
    /\ pc = "done"
    /\ Cardinality(StoredRows) = 2
    /\ Len(items) = 1
    /\ \E r \in StoredRows :
        /\ r \notin Range(items)
        /\ r \in RefFiltered(StoredRows, RefFilterUser(req.query.user_id),
                             RefFilterService(req.query.service_name))
        /\ r.EndDate # Nil

\* C6: the total a Total request answers is the month-by-month sum over the
\* stored rows whose userId equals the user filter (when given) and whose
\* serviceName equals the service filter (when given); an absent or blank
\* filter constrains nothing, and a row passing one of two filters only adds
\* nothing.
C6_TotalHonoursFilters ==
    pc = "done" =>
        /\ resp.status = 200
        /\ resp.total =
             Ptr(RefSetMonthlySum(
                    RefFiltered(StoredRows, RefFilterUser(req.query.user_id),
                                RefFilterService(req.query.service_name)),
                    MonthIndex(periodStart), MonthIndex(periodEnd)))

\* both filters given; one stored row passes both, another just one
C6_Witness ==
    /\ pc = "done"
    /\ RefFilterUser(req.query.user_id) # Nil
    /\ RefFilterService(req.query.service_name) # Nil
    /\ \E r1, r2 \in StoredRows :
        /\ r1.UserID = Deref(RefFilterUser(req.query.user_id))
        /\ r1.ServiceName = Deref(RefFilterService(req.query.service_name))
        /\ r2.UserID = r1.UserID
        /\ r2.ServiceName # r1.ServiceName
        /\ RefLivesInWindow(r2, periodStart, periodEnd)
        /\ resp.total = Ptr(LoopBody(0, r1, periodStart, periodEnd))
    /\ Deref(resp.total) > 0

\* a Create or Update body whose end_date names a month before its start_date
RefEndBeforeStart(body) ==
    /\ body.json
    /\ RefMonthOfText(body.start_date) >= 0
    /\ RefMonthOfText(body.end_date) >= 0
    /\ RefMonthOfText(body.end_date) < RefMonthOfText(body.start_date)

\* C9: every stored row has no endDate or an endDate not before its
\* startDate, and a Create or Update whose end_date is before its start_date
\* is rejected (400) and leaves the table as it was.
C9_EndNotBeforeStart ==
    /\ [](\A r \in StoredRows :
            r.EndDate = Nil \/ MonthIndex(Deref(r.EndDate)) >= MonthIndex(r.StartDate))
    /\ [][(req'.handler \in {"Create", "Update"} /\ RefEndBeforeStart(req'.body)) =>
            (/\ resp'.status = 400
             /\ resp'.error \in {"end_date before start_date", "invalid id"}
             /\ resp'.error = "invalid id" => req'.id = <<"x">>
             /\ repoErr' = NotCalled
             /\ subscriptions' = subscriptions)]_vars

\* an Update of a stored row with end_date before start_date, rejected
C9_Witness ==
    /\ req.handler = "Update"
    /\ RefEndBeforeStart(req.body)
    /\ resp.status = 400
    /\ uuidParse(req.id).id \in DOMAIN subscriptions
    /\ subscriptions[uuidParse(req.id).id].EndDate # Nil

\* C10: every date the arithmetic of Total works on (periodStart, periodEnd,
\* the startDate and endDate of each candidate) and every date of a stored
\* row is the first day of its month at midnight UTC.
C10_DatesAreMonthStarts ==
    /\ \A r \in StoredRows :
        /\ IsMonthStart(r.StartDate)
        /\ r.EndDate # Nil => IsMonthStart(Deref(r.EndDate))
    /\ pc = "done" =>
        /\ IsMonthStart(periodStart)
        /\ IsMonthStart(periodEnd)
        /\ \A i \in 1..Len(items) :
            /\ IsMonthStart(items[i].StartDate)
            /\ items[i].EndDate # Nil => IsMonthStart(Deref(items[i].EndDate))

\* a Total request answered from two stored candidates, one with an end date
C10_Witness ==
    /\ pc = "done"
    /\ Len(items) = 2
    /\ \E i \in 1..2 : items[i].EndDate # Nil
    /\ resp.status = 200
    /\ Deref(resp.total) > 0

----------------------------------------------------------------------------
(* Claims on monthsInclusive (SpecMonths) *)

\* C3: for month-normalized a <= b, monthsInclusive(a, b) is the number of
\* calendar months from a to b, both counted: 1 for a = b, and one more for
\* every month b advances, also from December to January.
C3_MonthsInclusiveCounts ==
    (months # Nil /\ ~Before(argEnd, argStart)) =>
        /\ Deref(months) =
             (argEnd.year - argStart.year) * 12 + (argEnd.month - argStart.month) + 1
        /\ Deref(months) =
             Cardinality({d \in MonthDates : ~Before(d, argStart) /\ ~Before(argEnd, d)})
        /\ (argStart = argEnd => Deref(months) = 1)
        /\ (NextMonth(argEnd) \in MonthDates =>
              monthsInclusive(argStart, NextMonth(argEnd)) = Deref(months) + 1)

\* 2024-11 .. 2025-02 gives 4
C3_Witness ==
    /\ argStart = Month(2024, 11)
    /\ argEnd = Month(2025, 2)
    /\ months = Ptr(4)

----------------------------------------------------------------------------
(* Further claims on the handlers and the table (Spec) *)

\* C11: every stored row has price >= 0, and a Create or Update whose price
\* is negative is rejected with an error (400) before the repository is
\* called and leaves the table as it was.
C11_PriceNotNegative ==
    /\ [](\A r \in StoredRows : r.Price >= 0)
    /\ [][(req'.handler \in {"Create", "Update"} /\ req'.body.json
           /\ req'.body.price < 0) =>
            (/\ resp'.status = 400
             /\ resp'.error \in {"price must be >= 0", "invalid id"}
             /\ resp'.error = "invalid id" => req'.id = <<"x">>
             /\ repoErr' = NotCalled
             /\ subscriptions' = subscriptions)]_vars

\* a Create with price -1 rejected while the table holds a row
C11_Witness ==
    /\ req.handler = "Create"
    /\ req.body.price < 0
    /\ resp.status = 400
    /\ resp.error = "price must be >= 0"
    /\ repoErr = NotCalled
    /\ StoredRows # {}

\* C14: a Total request, like a Get and a List request, leaves the table as
\* it was, every field of every row included, and the candidates the loop
\* has run over are still the rows the table holds.
C14_TotalIsReadOnly ==
    /\ [][req'.handler \in {"Total", "Get", "List"} =>
            /\ subscriptions' = subscriptions
            /\ nextId' = nextId]_vars
    /\ [](pc = "done" => \A i \in 1..Len(items) : items[i] \in StoredRows)

\* a Total answered from a candidate that started before the window
C14_Witness ==
    /\ req.handler = "Total"
    /\ pc = "done"
    /\ Len(items) > 0
    /\ \E i \in 1..Len(items) : Before(items[i].StartDate, periodStart)
    /\ Deref(resp.total) > 0

----------------------------------------------------------------------------
\* a query of Total whose start_date or end_date is missing or names no
\* month, or whose user_id is no UUID
RefBadTotalQuery(query) ==
    \/ RefMonthOfText(query.start_date) < 0
    \/ RefMonthOfText(query.end_date) < 0
    \/ query.user_id = <<"x">>

\* C16: a Total request whose start_date or end_date is missing or
\* malformed, or whose user_id is malformed, is answered 400 without
\* ListOverlapping being called and without a total being computed.
C16_BadTotalQueryIs400 ==
    (req.handler = "Total" /\ RefBadTotalQuery(req.query)) =>
        /\ resp.status = 400
        /\ resp.error # ""
        /\ resp.total = Nil
        /\ repoErr = NotCalled
        /\ pc = "idle"
        /\ items = <<>>
        /\ total = 0

\* a Total request with the end_date "2025" refused while the table holds rows
C16_Witness ==
    /\ req.handler = "Total"
    /\ req.query.end_date = <<"2", "0", "2", "5">>
    /\ resp = ErrorResponse(400, "invalid end_date")
    /\ repoErr = NotCalled
    /\ StoredRows # {}

C18_NotFoundIff404 ==
    [][req'.handler \in {"Get", "Update", "Delete"} =>
        /\ (resp'.status = 404 /\ resp'.error = "not found") <=> repoErr' = ErrNotFound
        /\ repoErr' = ErrNotFound => subscriptions' = subscriptions]_vars

\* an Update of an id the table does not hold has been answered 500
C18_UpdateMissingIs500 ==
    /\ req.handler = "Update"
    /\ repoErr = ErrNotFound
    /\ resp = ErrorResponse(500, "db error")

\* C19: whenever the repository call of a handler failed because the
\* deadline of the request expired, the handler answers 504 'timeout'.
C19_DeadlineIs504 ==
    repoErr = DeadlineExceeded => (resp.status = 504 /\ resp.error = "timeout")

\* the deadline expired in ListOverlapping and Total has answered 500
C19_DeadlineIs500 ==
    /\ req.handler = "Total"
    /\ repoErr = DeadlineExceeded
    /\ resp = ErrorResponse(500, "db error")

(* Claims on ParseMonthYear (SpecParse) *)

RefDigits(p) ==
    /\ p # <<>>
    /\ \A i \in 1..Len(p) : p[i] \in {"0", "1", "2", "3", "4", "5", "6", "7", "8", "9"}

\* p is the decimal text of an integer, with or without a sign
RefInteger(p) ==
    \/ RefDigits(p)
    \/ Len(p) > 1 /\ p[1] \in {"+", "-"} /\ RefDigits(Tail(p))

RefIntegerValue(p) ==
    IF p[1] = "-" THEN 0 - DigitsValue(Tail(p))
    ELSE IF p[1] = "+" THEN DigitsValue(Tail(p))
    ELSE DigitsValue(p)

\* the hyphens of s that have an integer on either side
RefSplits(s) ==
    {i \in 1..Len(s) :
        /\ s[i] = "-"
        /\ RefInteger(SubSeq(s, 1, i - 1))
        /\ RefInteger(SubSeq(s, i + 1, Len(s)))}

RefMonthOf(s, i) == RefIntegerValue(SubSeq(s, 1, i - 1))
RefYearOf(s, i) == RefIntegerValue(SubSeq(s, i + 1, Len(s)))

\* C12: ParseMonthYear (surrounding white space aside) returns an error for
\* every string that is not two integers with a hyphen between them, for
\* every month outside 1..12 and for every year <= 1900 or >= 2500; months
\* 1..12 with years 1901..2499 are accepted, and every accepted string gives
\* the date (year, month, 1, 00:00 UTC).
C12_ParseMonthYearRejects ==
    parseRes # Nil =>
        LET s == TrimSpace(parseArg)
            r == Deref(parseRes)
        IN  /\ RefSplits(s) = {} => r.err # NoErr
            /\ \A i \in RefSplits(s) :
                /\ (RefMonthOf(s, i) < 1 \/ RefMonthOf(s, i) > 12) => r.err # NoErr
                /\ (RefYearOf(s, i) <= 1900 \/ RefYearOf(s, i) >= 2500) => r.err # NoErr
                /\ (RefMonthOf(s, i) \in 1..12 /\ RefYearOf(s, i) \in 1901..2499) =>
                      r.err = NoErr
            /\ r.err = NoErr =>
                \E i \in RefSplits(s) :
                    r.t = Date(RefYearOf(s, i), RefMonthOf(s, i), 1, 0)

\* month 07 of year 2500 is refused for its year
C12_Witness ==
    /\ parseArg = <<"0", "7", "-", "2", "5", "0", "0">>
    /\ parseRes # Nil
    /\ Deref(parseRes).err = "year out of range"

\* a two-digit month, a hyphen, a four-digit year
RefIsMMYYYY(s) ==
    /\ Len(s) = 7
    /\ s[3] = "-"
    /\ RefDigits(SubSeq(s, 1, 2))
    /\ RefDigits(SubSeq(s, 4, 7))

\* C13: ParseMonthYear accepts a string (surrounding white space aside) only
\* if it is a two-digit month, a hyphen and a four-digit year.
C13_AcceptsOnlyMMYYYY ==
    (parseRes # Nil /\ Deref(parseRes).err = NoErr) => RefIsMMYYYY(TrimSpace(parseArg))

\* the one-digit month "7-2025" has been accepted as July 2025
C13_Accepted ==
    /\ parseArg = <<"7", "-", "2", "0", "2", "5">>
    /\ parseRes = Ptr([err |-> NoErr, t |-> Date(2025, 7, 1, 0)])

----------------------------------------------------------------------------
(* SpecConc: Total requests served at the same time, each by its own       *)
(* goroutine, while Create, Update and Delete requests change the table.   *)
(* A statement of the database is one step.                                *)

Goroutines == 1..MaxCalls

ConcQueries ==
    {BaseQuery,
     [BaseQuery EXCEPT !.start_date = S012025],
     [BaseQuery EXCEPT !.user_id = <<"a">>],
     [BaseQuery EXCEPT !.start_date = <<>>]}

ConcBodies ==
    {BaseBody,
     [BaseBody EXCEPT !.price = 300, !.user_id = <<"B">>,
                      !.start_date = S122024, !.end_date = S122024]}

\* the local variables of Total; want is not of the program: it records, for
\* the claims, the month-by-month sum over the table as ListOverlapping saw it
Call(pcOf, query, fetched, pStart, pEnd, tot, i, response, wanted) ==
    [pc |-> pcOf, query |-> query, items |-> fetched, periodStart |-> pStart,
     periodEnd |-> pEnd, total |-> tot, idx |-> i, resp |-> response, want |-> wanted]

IdleCall == Call("idle", EmptyQuery, <<>>, ZeroTime, ZeroTime, 0, 1, NoResponse, 0)

InitConc ==
    /\ calls = [g \in Goroutines |-> IdleCall]
    /\ StoreIdle
    /\ EngineIdle
    /\ MonthsIdle
    /\ UtilsIdle
    /\ CtxIdle
    /\ WideIdle
    /\ RunIdle

\* a Total request arrives: its parameters are read and validated
CallBegin(g) ==
    /\ calls[g].pc = "idle"
    /\ \E query \in ConcQueries :
        calls' = [calls EXCEPT ![g] =
            IF TotalRejects(query) # NoResponse
            THEN [IdleCall EXCEPT !.pc = "rejected", !.query = query,
                                  !.resp = TotalRejects(query)]
            ELSE [IdleCall EXCEPT
                    !.pc = "fetch", !.query = query,
                    !.periodStart = ParseMonthYear(TrimSpace(query.start_date)).t,
                    !.periodEnd = ParseMonthYear(TrimSpace(query.end_date)).t]]
    /\ UNCHANGED <<storeVars, engineVars, monthVars, utilVars, ctxVars, wideVars, runVars>>

\* h.repo.ListOverlapping: one SELECT on the table as it is now
CallFetch(g) ==
    /\ calls[g].pc = "fetch"
    /\ \E fault \in Faults :
        IF fault # "none"
        THEN calls' = [calls EXCEPT ![g].pc = "failed",
                                    ![g].resp = ErrorResponse(500, "db error")]
        ELSE \E fetched \in repoListOverlapping(subscriptions, UserFilter(calls[g].query),
                                                ServiceFilter(calls[g].query),
                                                calls[g].periodStart, calls[g].periodEnd) :
                calls' = [calls EXCEPT
                    ![g].pc = "loop", ![g].items = fetched, ![g].total = 0, ![g].idx = 1,
                    ![g].want =
                        RefSetMonthlySum(
                            RefFiltered(StoredRows, RefFilterUser(calls[g].query.user_id),
                                        RefFilterService(calls[g].query.service_name)),
                            MonthIndex(calls[g].periodStart),
                            MonthIndex(calls[g].periodEnd))]
    /\ UNCHANGED <<storeVars, engineVars, monthVars, utilVars, ctxVars, wideVars, runVars>>

CallIter_sharedTotal(g) ==
    /\ calls[g].pc = "loop"
    /\ calls[g].idx <= Len(calls[g].items)
    /\ calls' = [h \in Goroutines |->
                    IF h = g
                    THEN [calls[h] EXCEPT
                            !.total = LoopBody(calls[g].total, calls[g].items[calls[g].idx],
                                               calls[g].periodStart, calls[g].periodEnd),
                            !.idx = calls[g].idx + 1]
                    ELSE [calls[h] EXCEPT
                            !.total = LoopBody(calls[g].total, calls[g].items[calls[g].idx],
                                               calls[g].periodStart, calls[g].periodEnd)]]
    /\ UNCHANGED <<storeVars, engineVars, monthVars, utilVars, ctxVars, wideVars, runVars>>

\* one iteration of the range loop of goroutine g
CallIter(g) ==
    /\ calls[g].pc = "loop"
    /\ calls[g].idx <= Len(calls[g].items)
    /\ calls' = [calls EXCEPT
                    ![g].total = LoopBody(calls[g].total, calls[g].items[calls[g].idx],
                                          calls[g].periodStart, calls[g].periodEnd),
                    ![g].idx = calls[g].idx + 1]
    /\ UNCHANGED <<storeVars, engineVars, monthVars, utilVars, ctxVars, wideVars, runVars>>

\* the loop of goroutine g is over: the answer is written
CallExit(g) ==
    /\ calls[g].pc = "loop"
    /\ calls[g].idx > Len(calls[g].items)
    /\ calls' = [calls EXCEPT
                    ![g].pc = "done",
                    ![g].resp = TotalResponse(calls[g].total,
                                              TrimSpace(calls[g].query.start_date),
                                              TrimSpace(calls[g].query.end_date))]
    /\ UNCHANGED <<storeVars, engineVars, monthVars, utilVars, ctxVars, wideVars, runVars>>

\* a Create request served meanwhile
ConcCreate ==
    /\ nextId <= MaxIds
    /\ \E body \in ConcBodies :
        LET out == CreateHandler(subscriptions, nextId, body, "none")
        IN  /\ subscriptions' = out.table
            /\ nextId' = out.nextId
    /\ UNCHANGED <<req, resp, repoErr, engineVars, monthVars, utilVars, concVars, ctxVars,
                   wideVars, runVars>>

\* an Update request served meanwhile
ConcUpdate ==
    /\ \E idStr \in DOMAIN subscriptions, body \in ConcBodies :
        LET out == UpdateHandler(subscriptions, nextId, idStr, body, "none")
        IN  /\ subscriptions' = out.table
            /\ subscriptions' # subscriptions
    /\ UNCHANGED <<nextId, req, resp, repoErr, engineVars, monthVars, utilVars, concVars,
                   ctxVars, wideVars, runVars>>

\* a Delete request served meanwhile
ConcDelete ==
    /\ \E idStr \in DOMAIN subscriptions :
        subscriptions' = DeleteHandler(subscriptions, nextId, idStr, "none").table
    /\ UNCHANGED <<nextId, req, resp, repoErr, engineVars, monthVars, utilVars, concVars,
                   ctxVars, wideVars, runVars>>

NextConc ==
    \/ \E g \in Goroutines : CallBegin(g)
    \/ \E g \in Goroutines : CallFetch(g)
    \/ \E g \in Goroutines : CallIter(g)
    \/ \E g \in Goroutines : CallExit(g)
    \/ ConcCreate
    \/ ConcUpdate
    \/ ConcDelete

SpecConc == InitConc /\ [][NextConc]_vars

\* C15: however Total requests interleave with each other and with Create,
\* Update and Delete requests, the total a Total request answers is the
\* month-by-month sum over the table as its ListOverlapping query saw it;
\* what other requests do to their accumulators, their candidates or,
\* later, the table does not change it.
C15_TotalOfItsSnapshot ==
    \A g \in Goroutines :
        /\ calls[g].pc = "done" =>
            /\ calls[g].total = calls[g].want
            /\ calls[g].resp.status = 200
            /\ calls[g].resp.total = Ptr(calls[g].want)
        /\ calls[g].pc = "loop" =>
            calls[g].total = Aggregate(SubSeq(calls[g].items, 1, calls[g].idx - 1),
                                       calls[g].periodStart, calls[g].periodEnd)

\* two Total requests done with different totals of different snapshots for
\* the same window, neither total being that of the table as it is now
C15_Witness ==
    /\ calls[1].pc = "done"
    /\ calls[2].pc = "done"
    /\ calls[1].query = calls[2].query
    /\ calls[1].total # calls[2].total
    /\ calls[1].total > 0
    /\ calls[2].total > 0
    /\ Aggregate(CHOOSE seq \in repoListOverlapping(
                                    subscriptions, UserFilter(calls[1].query),
                                    ServiceFilter(calls[1].query),
                                    calls[1].periodStart, calls[1].periodEnd) : TRUE,
                 calls[1].periodStart, calls[1].periodEnd)
         \notin {calls[1].total, calls[2].total}

----------------------------------------------------------------------------
(* Claims on the termination of the loop (SpecLive) *)

\* C20: once retrieval has succeeded the loop takes one step per candidate
\* and Total eventually answers 200 with a total (0 for no candidates), also
\* when the deadline of the request expires meanwhile; there is no other
\* answer.
C20_LoopTerminates ==
    /\ <>(pc = "done")
    /\ [](pc = "done" =>
            /\ resp.status = 200
            /\ resp.total = Ptr(total)
            /\ idx = Len(items) + 1
            /\ items = <<>> => total = 0)
    /\ [](pc # "done" => resp = NoResponse)
    /\ [][pc = "loop" /\ idx' # idx => idx' = idx + 1 /\ idx <= Len(items)]_vars

\* the deadline expired during the loop over two candidates and the total
\* was answered all the same
C20_Witness ==
    /\ pc = "done"
    /\ ctxErr = DeadlineExceeded
    /\ Len(items) = 2
    /\ resp.status = 200
    /\ total = 1800

----------------------------------------------------------------------------
(* Claims on the width of the accumulator (SpecWide) *)

\* C21: with every price in 0..2^31-1, every month count within the 7188
\* months of the parseable years and at most 100000 candidates, no product
\* months * price and no partial sum leaves the signed 64-bit range: the
\* product and the accumulator are never negative and are the product and
\* the sum of mathematics, and so is the total answered.
C21_NoOverflow ==
    (wide # <<>> /\ wide.n <= 100000) =>
        /\ wide.price \in 0..MaxPrice
        /\ wide.months \in 1..7188
        /\ ~IntNegative(wide.product)
        /\ ~IntNegative(wide.total)
        /\ wide.n > 0 =>
            IntToMath(wide.product) = WideMul(wide.months, wide.price, MathLimbs)
        /\ IntToMath(wide.total) = wide.sum
        /\ wide.pc = "done" =>
            /\ wide.answer # Nil
            /\ IntToMath(Deref(wide.answer)) = wide.sum

\* 100000 candidates of the largest price, each active for all 7188 months:
\* the total answered is 1543611245463600000
C21_Witness ==
    /\ wide # <<>>
    /\ wide.pc = "done"
    /\ wide.n = 100000
    /\ wide.price = 2147483647
    /\ wide.months = 7188
    /\ wide.answer = Ptr(<<64384, 54567, 575, 5484>>)

----------------------------------------------------------------------------
(* Claims on validation and on the effects of the handlers (Spec) *)

\* what the fields of the request bodies of the model say
RefBlank(text) == text \in {<<>>, <<" ">>}

RefMonthDate(m) == Month(m \div 12, (m % 12) + 1)

RefFailsValidation(body) ==
    \/ RefFilterService(body.service_name) = Nil
    \/ body.price < 0
    \/ RefFilterUser(body.user_id) = Nil
    \/ RefMonthOfText(body.start_date) < 0
    \/ /\ ~RefBlank(body.end_date)
       /\ \/ RefMonthOfText(body.end_date) < 0
          \/ RefMonthOfText(body.end_date) < RefMonthOfText(body.start_date)

\* the subscription a valid body asks for, the timestamps left at zero
RefSubscriptionOf(body, id) ==
    Subscription(id, Deref(RefFilterService(body.service_name)), body.price,
                 Deref(RefFilterUser(body.user_id)),
                 RefMonthDate(RefMonthOfText(body.start_date)),
                 IF RefBlank(body.end_date) THEN Nil
                 ELSE Ptr(RefMonthDate(RefMonthOfText(body.end_date))),
                 0, 0)

\* the id parseSubscriptionRequest is given: a fresh one in Create, the path
\* parameter in Update
RefGivenId(request, n) ==
    IF request.handler = "Create" THEN NewUUID(n) ELSE uuidParse(request.id).id

\* C22: a Create or Update request that fails validation (blank
\* service_name, negative price, non-UUID user_id, unparsable start_date or
\* end_date, end_date before start_date) is answered 400, makes no
\* repository call and leaves the table as it was; a valid request yields a
\* subscription with the given id, the trimmed service name, the given price
\* and the dates as month starts (no endDate when end_date is blank): it is
\* what the repository is called with, and what is stored and answered when
\* the repository succeeds.
C22_ValidationDecides ==
    [][(req'.handler \in {"Create", "Update"} /\ req'.body.json) =>
        IF RefFailsValidation(req'.body)
        THEN /\ resp'.status = 400
             /\ repoErr' = NotCalled
             /\ subscriptions' = subscriptions
             /\ nextId' = nextId
        ELSE (req'.handler = "Update" => uuidParse(req'.id).err = NoErr) =>
             LET id == RefGivenId(req', nextId)
                 sub == RefSubscriptionOf(req'.body, id)
             IN  /\ repoErr' # NotCalled
                 /\ repoErr' = NoErr =>
                     /\ id \in DOMAIN subscriptions'
                     /\ [subscriptions'[id] EXCEPT !.CreatedAt = 0, !.UpdatedAt = 0] = sub
                     /\ Len(resp'.subs) = 1
                     /\ [resp'.subs[1] EXCEPT !.created_at = 0, !.updated_at = 0]
                            = toResponse(sub)]_vars

\* an Update of a stored row with price 0 and every other field valid has
\* been answered 400 without a repository call
C22_ZeroPriceUpdateIs400 ==
    /\ req.handler = "Update"
    /\ req.body = [BaseBody EXCEPT !.price = 0]
    /\ uuidParse(req.id).id \in DOMAIN subscriptions
    /\ resp = ErrorResponse(400, "invalid json")
    /\ repoErr = NotCalled

\* C23: price validation rejects exactly the negative prices: a Create or
\* Update request with price 0 and every other field valid is accepted (the
\* repository is called, and when it succeeds a subscription with price 0
\* is stored and answered), and a request is answered 'price must be >= 0'
\* only if its price is negative.
C23_RejectsExactlyNegative ==
    (/\ req.handler \in {"Create", "Update"}
     /\ req.body.json
     /\ req.handler = "Update" => uuidParse(req.id).err = NoErr) =>
        /\ resp.error = "price must be >= 0" => (resp.status = 400 /\ req.body.price < 0)
        /\ (req.body.price < 0 /\ ~RefFailsValidation([req.body EXCEPT !.price = 0])) =>
            resp = ErrorResponse(400, "price must be >= 0")
        /\ (req.body.price = 0 /\ ~RefFailsValidation(req.body)) =>
            /\ resp.status # 400
            /\ repoErr # NotCalled
            /\ repoErr = NoErr =>
                /\ Len(resp.subs) = 1
                /\ resp.subs[1].price = 0
                /\ resp.subs[1].id \in DOMAIN subscriptions
                /\ subscriptions[resp.subs[1].id].Price = 0

\* a Create with price 0 and every other field valid has been answered 400
\* 'invalid json', and no row was stored
C23_ZeroPriceCreateIs400 ==
    /\ req.handler = "Create"
    /\ req.body = [BaseBody EXCEPT !.price = 0]
    /\ resp = ErrorResponse(400, "invalid json")
    /\ repoErr = NotCalled
    /\ subscriptions = <<>>

\* C24: a successful Create adds exactly one row, under an id the table did
\* not hold, and changes no other row; a successful Update replaces the
\* fields of the row of the path id by those of the body, keeps its id and
\* createdAt and changes no other row; a successful Delete removes exactly
\* the row of the path id; a successful Get answers the row the table holds
\* and changes nothing; and the Get of an id served on the table a
\* successful Create or Update of that id has left answers the values that
\* request has written and answered.
C24_CrudFrames ==
    /\ [][/\ (req'.handler = "Create" /\ resp'.status = 201) =>
               \E id \in DOMAIN subscriptions' \ DOMAIN subscriptions :
                   /\ DOMAIN subscriptions' = DOMAIN subscriptions \cup {id}
                   /\ \A o \in DOMAIN subscriptions : subscriptions'[o] = subscriptions[o]
                   /\ [subscriptions'[id] EXCEPT !.CreatedAt = 0, !.UpdatedAt = 0]
                           = RefSubscriptionOf(req'.body, id)
                   /\ resp'.subs = <<toResponse(subscriptions'[id])>>
          /\ (req'.handler = "Update" /\ resp'.status = 200) =>
               LET id == uuidParse(req'.id).id
               IN  /\ id \in DOMAIN subscriptions
                   /\ DOMAIN subscriptions' = DOMAIN subscriptions
                   /\ \A o \in DOMAIN subscriptions \ {id} :
                           subscriptions'[o] = subscriptions[o]
                   /\ subscriptions'[id].CreatedAt = subscriptions[id].CreatedAt
                   /\ [subscriptions'[id] EXCEPT !.CreatedAt = 0, !.UpdatedAt = 0]
                           = RefSubscriptionOf(req'.body, id)
                   /\ resp'.subs = <<toResponse(subscriptions'[id])>>
          /\ (req'.handler = "Delete" /\ resp'.status = 204) =>
               LET id == uuidParse(req'.id).id
               IN  /\ id \in DOMAIN subscriptions
                   /\ DOMAIN subscriptions' = DOMAIN subscriptions \ {id}
                   /\ \A o \in DOMAIN subscriptions' : subscriptions'[o] = subscriptions[o]
          /\ (req'.handler = "Get" /\ resp'.status = 200) =>
               LET id == uuidParse(req'.id).id
               IN  /\ id \in DOMAIN subscriptions
                   /\ subscriptions' = subscriptions
                   /\ resp'.subs = <<toResponse(subscriptions[id])>>]_vars
    /\ [](req = NoRequest =>
            \A body \in Bodies :
                /\ nextId <= MaxIds =>
                    LET out == CreateHandler(subscriptions, nextId, body, "none")
                    IN  out.resp.status = 201 =>
                            GetHandler(out.table, out.nextId, NewUUID(nextId), "none").resp
                                = [out.resp EXCEPT !.status = 200]
                /\ \A idStr \in PathIds :
                    LET out == UpdateHandler(subscriptions, nextId, idStr, body, "none")
                    IN  out.resp.status = 200 =>
                            GetHandler(out.table, out.nextId, idStr, "none").resp = out.resp)

\* an Update has replaced one of two rows, later than the row was created,
\* and with other values than those of the other row
C24_Witness ==
    /\ req.handler = "Update"
    /\ resp.status = 200
    /\ Cardinality(DOMAIN subscriptions) = 2
    /\ \E id \in DOMAIN subscriptions :
        /\ id = uuidParse(req.id).id
        /\ subscriptions[id].UpdatedAt # subscriptions[id].CreatedAt
        /\ \E o \in DOMAIN subscriptions \ {id} :
            subscriptions[o].Price # subscriptions[id].Price

\* C25: with the rows the handlers have stored and the candidates
\* ListOverlapping selects from them, the skip test of Total is true of no
\* candidate of a window with periodStart <= periodEnd: every candidate has
\* its clamped end at or after its clamped start and counts at least one
\* month.  The test is true of a candidate only in a degenerate window.
C25_SkipIsDead ==
    (pc = "done" /\ req.handler = "Total") =>
        \A i \in 1..Len(items) :
            LET s == items[i]
                lo == IntMax(MonthIndex(s.StartDate), MonthIndex(periodStart))
                hi == IF s.EndDate = Nil THEN MonthIndex(periodEnd)
                      ELSE IntMin(MonthIndex(Deref(s.EndDate)), MonthIndex(periodEnd))
            IN  /\ skipped(s, periodStart, periodEnd) =>
                    MonthIndex(periodEnd) < MonthIndex(periodStart)
                /\ MonthIndex(periodStart) <= MonthIndex(periodEnd) =>
                    /\ lo <= hi
                    /\ ~Before(activeEnd(s, periodEnd), activeStart(s, periodStart))
                    /\ monthsInclusive(activeStart(s, periodStart),
                                       activeEnd(s, periodEnd)) = hi - lo + 1
                    /\ hi - lo + 1 >= 1

\* a window of two months and two candidates, one of them ending in the
\* first month of the window, the other starting in the second
C25_Witness ==
    /\ pc = "done"
    /\ req.handler = "Total"
    /\ periodStart = Month(2024, 12)
    /\ periodEnd = Month(2025, 1)
    /\ Len(items) = 2
    /\ items[1].EndDate = Ptr(Month(2024, 12))
    /\ items[2].StartDate = Month(2025, 1)
    /\ total = items[1].Price + items[2].Price

----------------------------------------------------------------------------
(* Claims on the bounds of the total (SpecEngine) *)

\* the prices of the first k candidates, added up
RECURSIVE RefPriceSum(_, _)
RefPriceSum(cands, k) ==
    IF k = 0 THEN 0 ELSE cands[k].Price + RefPriceSum(cands, k - 1)

\* the calls of monthsInclusive: for every candidate that is not skipped the
\* second argument is not before the first, and the count is at least 1 and
\* at most the count of the window
RefMonthsWithinWindow ==
    \A i \in 1..Len(items) :
        LET from == activeStart(items[i], periodStart)
            to == activeEnd(items[i], periodEnd)
        IN  ~skipped(items[i], periodStart, periodEnd) =>
                /\ ~Before(to, from)
                /\ MonthIndex(from) <= MonthIndex(to)
                /\ 1 <= monthsInclusive(from, to)
                /\ monthsInclusive(from, to) <= monthsInclusive(periodStart, periodEnd)

\* C26 as stated: for every candidate that is not skipped
\* 1 <= months <= monthsInclusive(periodStart, periodEnd), monthsInclusive
\* is never called with its second argument before its first, and with the
\* prices non-negative the accumulator stays, after every iteration, between
\* 0 and monthsInclusive(periodStart, periodEnd) times the sum of the prices
\* of the candidates the loop has run over.
C26_TotalWithinBounds ==
    pc \in {"loop", "done"} =>
        /\ RefMonthsWithinWindow
        /\ 0 <= total
        /\ total <= monthsInclusive(periodStart, periodEnd) * RefPriceSum(items, idx - 1)

\* C26, amended: the bounds on the month count hold as stated; the
\* accumulator is never negative; it is at most
\* monthsInclusive(periodStart, periodEnd) times the sum of the prices when
\* periodStart <= periodEnd, and it is 0 when periodEnd < periodStart, where
\* monthsInclusive(periodStart, periodEnd) is zero or negative.
C26_TotalWithinBoundsOfWindow ==
    pc \in {"loop", "done"} =>
        /\ RefMonthsWithinWindow
        /\ 0 <= total
        /\ ~Before(periodEnd, periodStart) =>
            total <= monthsInclusive(periodStart, periodEnd) * RefPriceSum(items, idx - 1)
        /\ Before(periodEnd, periodStart) =>
            /\ total = 0
            /\ monthsInclusive(periodStart, periodEnd) <= 0

\* a window of two months, a candidate that spans it and one that starts in
\* its second month: 2 * 500 + 1 * 300, below 2 * (500 + 300)
C26_Witness ==
    /\ pc = "done"
    /\ periodStart = Month(2024, 12)
    /\ periodEnd = Month(2025, 1)
    /\ Len(items) = 2
    /\ items[1].Price = 500
    /\ items[2].Price = 300
    /\ total = 1300
    /\ monthsInclusive(periodStart, periodEnd) * RefPriceSum(items, 2) = 1600

----------------------------------------------------------------------------
(* Claims on Total as a function of the window (Spec) *)

\* four consecutive months, around the dates of the stored rows
RefWindowTexts == <<S112024, S122024, S012025, S022025>>

\* the filters of a request: none, a user, a service name, both
RefWindowFilters ==
    {[user_id |-> u, service_name |-> n] :
        u \in {<<>>, <<"a">>}, n \in {<<>>, <<" ", "s", " ">>}}

\* the Total request for the window from the a-th to the c-th month
RefWindowQuery(a, c, f) ==
    [start_date |-> RefWindowTexts[a], end_date |-> RefWindowTexts[c],
     user_id |-> f.user_id, service_name |-> f.service_name]

\* the totals Total answers on the table as it is
RefTotals(a, c, f) ==
    {Deref(r.total) : r \in {x \in TotalAnswers(subscriptions, RefWindowQuery(a, c, f)) :
                                x.status = 200}}

\* the windows from an a-th to a c-th month, a <= c
RefWindows == {w \in (1..4) \X (1..4) : w[1] <= w[2]}

\* every window with the totals Total answers for it on the table as it is
RefWindowTotals(f) ==
    {[from |-> w[1], to |-> w[2], totals |-> RefTotals(w[1], w[2], f)] : w \in RefWindows}

\* the answer of the Total action is one of TotalAnswers
RefTotalIsAnAnswer ==
    (req.handler = "Total" /\ pc = "done") => resp \in TotalAnswers(subscriptions, req.query)

\* C27: on one table and with the same filters, for months a <= b < c the
\* total of the window a..c is the total of a..b plus the total of
\* (b + 1 month)..c, each one the answer of a whole Total request served
\* on the table as it is between two requests.
C27_WindowAdditivity ==
    /\ RefTotalIsAnAnswer
    /\ req = NoRequest =>
        \A f \in RefWindowFilters :
            \A answered \in {RefWindowTotals(f)} :
                \A ac \in answered, ab \in answered, bc \in answered :
                    (ab.from = ac.from /\ bc.from = ab.to + 1 /\ bc.to = ac.to) =>
                        /\ ac.totals # {}
                        /\ ab.totals # {}
                        /\ bc.totals # {}
                        /\ \A whole \in ac.totals, left \in ab.totals, right \in bc.totals :
                                whole = left + right

\* Total has answered the window 12-2024..01-2025 from two rows, and both
\* halves of the window have a total above 0
C27_Witness ==
    /\ req.handler = "Total"
    /\ pc = "done"
    /\ req.query = RefWindowQuery(2, 3, [user_id |-> <<>>, service_name |-> <<>>])
    /\ Len(items) = 2
    /\ \E left \in RefTotals(2, 2, req.query), right \in RefTotals(3, 3, req.query) :
        /\ left > 0
        /\ right > 0
        /\ left # right
        /\ resp.total = Ptr(left + right)

\* C28: on one table (its prices are not negative) and with the same
\* filters, if the window W1 lies within the window W2 (W2.start <= W1.start
\* <= W1.end <= W2.end) the total of W1 is at most the total of W2, each one
\* the answer of a whole Total request served on the table as it is between
\* two requests.
C28_WindowMonotonicity ==
    /\ \A r \in StoredRows : r.Price >= 0
    /\ req = NoRequest =>
        \A f \in RefWindowFilters :
            \A answered \in {RefWindowTotals(f)} :
                \A w1 \in answered, w2 \in answered :
                    (w2.from <= w1.from /\ w1.to <= w2.to) =>
                        /\ w1.totals # {}
                        /\ w2.totals # {}
                        /\ \A inner \in w1.totals, outer \in w2.totals : inner <= outer

\* Total has answered the window 01-2025..01-2025 from two rows; the window
\* 12-2024..01-2025 around it has a larger total, the window 11-2024..02-2025
\* a larger one still
C28_Witness ==
    /\ req.handler = "Total"
    /\ pc = "done"
    /\ req.query = RefWindowQuery(3, 3, [user_id |-> <<>>, service_name |-> <<>>])
    /\ Len(items) = 2
    /\ total > 0
    /\ \E outer \in RefTotals(2, 3, req.query), outmost \in RefTotals(1, 4, req.query) :
        /\ total < outer
        /\ outer < outmost

----------------------------------------------------------------------------
(* Claims on the round trip of dates (SpecParse) *)

\* the decimal digits of n in width places, zeros in front
RefDecimal(n, width) ==
    [i \in 1..width |->
        DigitChar[((n \div (10 ^ (width - i))) % 10) + 1]]

\* C29: FormatMonthYear(t) is the month of t in two digits, a hyphen and the
\* year of t in four digits, whatever the day and the hour of t; for t of a
\* year in 1901..2499 ParseMonthYear accepts that string and returns the
\* first day of the month of t at 00:00 UTC; and for every string of the
\* form MM-YYYY that ParseMonthYear accepts, FormatMonthYear of the date
\* parsed is the string itself.
C29_DateRoundTrip ==
    /\ (formatArg # Nil /\ formatRes # Nil) =>
        LET t == Deref(formatArg)
        IN  /\ Deref(formatRes) = RefDecimal(t.month, 2) \o <<"-">> \o RefDecimal(t.year, 4)
            /\ RefIsMMYYYY(Deref(formatRes))
            /\ (parseRes # Nil /\ t.year \in 1901..2499) =>
                /\ Deref(parseRes).err = NoErr
                /\ Deref(parseRes).t = Date(t.year, t.month, 1, 0)
    /\ (formatArg = Nil /\ parseRes # Nil /\ RefIsMMYYYY(parseArg)
        /\ Deref(parseRes).err = NoErr) =>
            (formatRes # Nil => Deref(formatRes) = parseArg)

\* 23:00 of 15 July 2025 has been formatted as "07-2025" and parsed back as
\* 00:00 of 1 July 2025
C29_Witness ==
    /\ formatArg = Ptr(Date(2025, 7, 15, 23))
    /\ formatRes = Ptr(<<"0", "7", "-", "2", "0", "2", "5">>)
    /\ parseRes = Ptr([err |-> NoErr, t |-> Date(2025, 7, 1, 0)])

----------------------------------------------------------------------------
(* Claims on the responses of a handler (SpecSteps) *)

\* every check of the handler serving req passed
RefChecksPassed ==
    /\ req.handler \in {"Get", "Update", "Delete"} => uuidParse(req.id).err = NoErr
    /\ req.handler \in {"Create", "Update"} =>
        /\ ShouldBindJSON(req.body)
        /\ parseSubscriptionRequest(req.body, <<>>).err = NoErr
    /\ req.handler = "List" =>
        (TrimSpace(req.query.user_id) = <<>>
         \/ uuidParse(TrimSpace(req.query.user_id)).err = NoErr)
    /\ req.handler = "Total" => TotalRejects(req.query) = NoResponse

====
